---- MODULE Spec2Model ----
(***************************************************************************)
(* Model of the motion orchestrator of the horse trainer                   *)
(* (src/src/motion_controller.py) on top of two servo devices              *)
(* (src/src/servo_device.py) and their Modbus transports                   *)
(* (src/src/modbus_manager.py).                                            *)
(*                                                                         *)
(* Two kinds of processes run: the caller's thread, which executes the     *)
(* public operations of MotionController one statement group at a time     *)
(* (cpc is its position), and the sampling threads created by              *)
(* start_motion, each executing _motion_loop (tpc[t] is its position).     *)
(* A register request is in flight between the step that issues it and the *)
(* step that receives its result, so overlapping requests are visible.     *)
(***************************************************************************)
EXTENDS Integers, Sequences, FiniteSets, TLC

\* Bound of the model: the number of sampling threads ever created.
MaxThreads == 2

Threads == 1..MaxThreads
NoThread == 0

Dev == {"front", "rear"}

\* class MotionMode
Modes == {"STOPPED", "MANUAL", "WALK", "GALLOP", "CUSTOM"}
PatternModes == {"WALK", "GALLOP", "CUSTOM"}

\* A pattern is named by what selects it; None is the absent pattern.
None == "None"
UserPatterns == {"User"}

\* The patterns a caller can build: MotionPattern is a dataclass that takes
\* any cycle_time_ms, "Zero" is one built with cycle_time_ms = 0
CallerPatterns == UserPatterns \cup {"Zero"}

\* A table of periods in which the walk has none
CycleTimeWalkZero(pattern) ==
    CASE pattern = "Walk" -> 0
      [] pattern = "Gallop" -> 600
      [] pattern = "User" -> 1000
      [] pattern = "Zero" -> 0

\* MotionPattern.cycle_time_ms
cycle_time_ms(pattern) ==
    CASE pattern = "Walk" -> 2000
      [] pattern = "Gallop" -> 600
      [] pattern = "User" -> 1000
      [] pattern = "Zero" -> 0

\* A preset table with the two gaits under each other's key
PresetsSwapped(mode) ==
    IF mode = "WALK" THEN "Gallop"
    ELSE IF mode = "GALLOP" THEN "Walk"
    ELSE None

\* PRESET_PATTERNS.get(mode)
PRESET_PATTERNS(mode) ==
    IF mode = "WALK" THEN "Walk"
    ELSE IF mode = "GALLOP" THEN "Gallop"
    ELSE None

\* The value of a device variable in a specification that does not follow it
Untracked == <<>>

\* class ServoStatus as A5ServoDevice.__init__ creates it
ServoStatus ==
    [position |-> 0, speed |-> 0, torque |-> 0, dc_voltage |-> 0,
     fault_code |-> 0, di_status |-> 0, do_status |-> 0,
     is_enabled |-> FALSE, is_running |-> FALSE]

\* What read_registers returns: None (ok is FALSE) or the list of registers
NoneResult == [ok |-> FALSE, regs |-> <<>>]
List(regs) == [ok |-> TRUE, regs |-> regs]

\* The locals of a device operation: the argument of enable, the register
\* value its read returned, the values of its write requests in order, the
\* result of its latest read; before is the register when the present run of
\* successful enable calls began; results is the dictionary that
\* read_custom_registers builds, entry by entry
NoLoc == [arg |-> FALSE, current |-> 0, before |-> 0, writes |-> <<>>,
          result |-> NoneResult, results |-> <<>>]

\* TLC's integers end at 2^31 - 1, so the value (high << 16) | low of up to
\* 2^32 - 1 is kept as its two halves
Wide(high, low) == [hi |-> high, lo |-> low]

\* A 32-bit value in the transport: the two registers at the address, the
\* value written last (if one was), what read_32bit_value returned and what
\* read_status made of it
NoXf == [pc |-> "stored", mem |-> <<0, 0>>, written |-> FALSE, v |-> 0,
         got |-> Wide(0, 0), pos |-> 0]

VARIABLES
    current_mode,     \* MotionController.current_mode
    current_pattern,  \* MotionController.current_pattern
    stop_event,       \* MotionController._stop_event (is_set)
    motion_thread,    \* MotionController._motion_thread (NoThread = None)
    tpc,              \* position of every sampling thread in _motion_loop
    connected,        \* A5ServoDevice.is_connected per device
    callbacks,        \* which receivers set_callbacks has registered
    cpc,              \* position of the caller's thread
    cdev,             \* device the caller's current step works on
    cop,              \* the operation the caller runs or ran last
    entry,            \* what the claims compare with, taken when cop was called
    trace,            \* what cop did so far, in order
    raised,           \* cop ended by propagating an exception
    ret,              \* what cop returned to its caller
    status,           \* A5ServoDevice.status of the front device
    vdi,              \* register P17_00_VIRTUAL_DI inside the front drive
    loc,              \* locals of the device operation the caller runs
    xf,               \* a 32-bit value on its way through the transport
    modbus,           \* ModbusManager.client and ModbusManager._connected
    custom,           \* A5ServoDevice.custom_registers of the front device
    tick              \* locals of a tick: the phase and the two positions

vars == <<current_mode, current_pattern, stop_event, motion_thread, tpc,
          connected, callbacks, cpc, cdev, cop, entry, trace, raised, ret,
          status, vdi, loc, xf, modbus, custom, tick>>

\* The state of one device and its transport, which the orchestrator's
\* operations leave alone
dvars == <<status, vdi, loc, xf, modbus, custom, tick>>

orch == <<current_mode, current_pattern, stop_event, motion_thread>>

----------------------------------------------------------------------------
\* Helpers

\* Thread.is_alive(): started and _motion_loop not yet returned
Alive(t) == tpc[t] \notin {"none", "done"}

\* The thread is inside the body of the while loop (a tick)
InTick(t) == tpc[t] \in {"front", "front_io", "rear", "rear_io", "notify"}

Created == {t \in Threads : tpc[t] # "none"}

IoPc(d) == IF d = "front" THEN "front_io" ELSE "rear_io"

\* A set_target_position request of thread t is in flight on device d
ThreadInFlight(t, d) == tpc[t] = IoPc(d)

\* A register request of the caller's thread is in flight on device d
CallerInFlight(d) ==
    /\ cdev = d
    /\ cpc \in {"stop_zero_io", "es_speed_io", "es_enable_rd", "es_enable_wr",
                "mm_io", "mj_io"}

Op(name, mode, pattern, front, rear) ==
    [name |-> name, mode |-> mode, pattern |-> pattern,
     front |-> front, rear |-> rear]

Has(e) == \E i \in 1..Len(trace) : trace[i] = e

\* Index of the first occurrence of e in the trace, 0 when absent
Pos(e) ==
    IF Has(e) THEN CHOOSE i \in 1..Len(trace) :
                       /\ trace[i] = e
                       /\ \A j \in 1..(i - 1) : trace[j] # e
    ELSE 0

Returned(name) == cpc = "idle" /\ cop.name = name

\* What is remembered of the state in which an operation is called: the mode
\* (start_motion, emergency_stop), the thread handle and whether the operation
\* before was stop_motion too (stop_motion)
NoEntry == [mode |-> "STOPPED", thread |-> NoThread, again |-> FALSE]

\* Entry of a public operation on the caller's thread
Enter(op, e) ==
    /\ cpc = "idle"
    /\ cop' = op
    /\ entry' = e
    /\ raised' = FALSE

\* A Python bool as a returned value (None is a return without a value)
Bool(b) == IF b THEN "True" ELSE "False"

\* Continue at target; "raise" propagates an exception out of the operation
Goto(target) ==
    IF target = "raise"
    THEN cpc' = "idle" /\ raised' = TRUE
    ELSE cpc' = target /\ UNCHANGED raised

----------------------------------------------------------------------------
\* MotionController.__init__ on two devices that are not connected yet
InitCaller ==
    /\ current_mode = "STOPPED"
    /\ current_pattern = None
    /\ stop_event = FALSE
    /\ motion_thread = NoThread
    /\ tpc = [t \in Threads |-> "none"]
    /\ connected = [d \in Dev |-> FALSE]
    /\ callbacks = [pos |-> FALSE, mode |-> FALSE, err |-> FALSE]
    /\ cpc = "idle"
    /\ cdev = "front"
    /\ cop = Op("init", "STOPPED", None, FALSE, FALSE)
    /\ entry = NoEntry
    /\ trace = <<>>
    /\ raised = FALSE
    /\ ret = None

\* The orchestrator sees a device by its connection and its requests alone
Init ==
    /\ InitCaller
    /\ status = Untracked
    /\ vdi = Untracked
    /\ loc = Untracked
    /\ xf = Untracked
    /\ modbus = Untracked
    /\ custom = Untracked
    /\ tick = Untracked

----------------------------------------------------------------------------
\* Set-up operations of the caller's thread

\* MotionController.set_callbacks: the receivers are registered together, as
\* the main window does, or removed together
SetCallbacks(on) ==
    /\ Enter(Op("set_callbacks", "STOPPED", None, FALSE, FALSE), NoEntry)
    /\ callbacks' = [pos |-> on, mode |-> on, err |-> on]
    /\ trace' = <<>>
    /\ UNCHANGED <<orch, tpc, connected, cpc, cdev>>
    /\ ret' = None
    /\ UNCHANGED dvars

\* A5ServoDevice.connect -> ModbusManager.connect: the link opens or not
Connect(d) ==
    /\ Enter(Op("connect", "STOPPED", None, FALSE, FALSE), NoEntry)
    /\ \E ok \in BOOLEAN : /\ connected' = [connected EXCEPT ![d] = ok]
                           /\ ret' = Bool(ok)
    /\ trace' = <<>>
    /\ UNCHANGED <<orch, tpc, callbacks, cpc, cdev>>
    /\ UNCHANGED dvars

\* A5ServoDevice.disconnect -> ModbusManager.disconnect
Disconnect(d) ==
    /\ Enter(Op("disconnect", "STOPPED", None, FALSE, FALSE), NoEntry)
    /\ connected' = [connected EXCEPT ![d] = FALSE]
    /\ trace' = <<>>
    /\ UNCHANGED <<orch, tpc, callbacks, cpc, cdev>>
    /\ ret' = None
    /\ UNCHANGED dvars

----------------------------------------------------------------------------
\* MotionController.stop_motion, also the first statement of start_motion

\* self._stop_event.set()
StopSignal ==
    /\ stop_event' = TRUE
    /\ trace' = << <<"signal", "stop">> >>
    /\ cpc' = "stop_check"
    /\ cdev' = "front"

CallStopMotion ==
    /\ Enter(Op("stop_motion", "STOPPED", None, FALSE, FALSE),
             [mode |-> "STOPPED", thread |-> motion_thread,
              again |-> Returned("stop_motion")])
    /\ StopSignal
    /\ UNCHANGED <<current_mode, current_pattern, motion_thread, tpc,
                   connected, callbacks>>
    /\ ret' = None
    /\ UNCHANGED dvars

\* A join that skips the check of the thread handle
JoinNeededAlways == TRUE

\* A stop that never waits for the thread
JoinNeededNever == FALSE

\* if self._motion_thread and self._motion_thread.is_alive():
JoinNeeded == motion_thread # NoThread /\ Alive(motion_thread)

StopCheck ==
    /\ cpc = "stop_check"
    /\ cpc' = IF JoinNeeded THEN "stop_join" ELSE "stop_reset"
    /\ UNCHANGED <<orch, tpc, connected, callbacks, cdev, cop, entry,
                   trace, raised, ret, dvars>>

\* self._motion_thread.join(timeout=2.0): the thread has exited
JoinReturn ==
    /\ cpc = "stop_join"
    /\ IF motion_thread = NoThread
       THEN Goto("raise") /\ UNCHANGED trace
       ELSE /\ ~Alive(motion_thread)
            /\ Goto("stop_reset")
            /\ trace' = Append(trace, <<"join", "exited">>)
    /\ UNCHANGED <<orch, tpc, connected, callbacks, cdev, cop, entry,
                   ret, dvars>>

\* join() without a timeout
JoinUnbounded == FALSE

\* self._motion_thread.join(timeout=2.0)
JoinBounded == TRUE

\* The thread is blocked in a transport request (one request blocks for up to
\* the transport's timeout and a tick issues two): the 2.0 s of join elapse
JoinTimeout ==
    /\ JoinBounded
    /\ cpc = "stop_join"
    /\ motion_thread # NoThread
    /\ tpc[motion_thread] \in {"front_io", "rear_io"}
    /\ cpc' = "stop_reset"
    /\ trace' = Append(trace, <<"join", "timeout">>)
    /\ UNCHANGED <<orch, tpc, connected, callbacks, cdev, cop, entry,
                   raised, ret, dvars>>

\* self._motion_thread = None; current_mode = STOPPED; current_pattern = None
StopReset ==
    /\ cpc = "stop_reset"
    /\ motion_thread' = NoThread
    /\ current_mode' = "STOPPED"
    /\ current_pattern' = None
    /\ cpc' = "stop_zero"
    /\ cdev' = "front"
    /\ UNCHANGED <<stop_event, tpc, connected, callbacks, cop, entry,
                   trace, raised, ret, dvars>>

StopAfter(d) == IF d = "front" THEN "stop_zero" ELSE "stop_notify"

\* if self.<d>_servo.is_connected: self.<d>_servo.set_target_speed(0)
StopZero(d) ==
    /\ cpc = "stop_zero"
    /\ cdev = d
    /\ IF connected[d]
       THEN /\ cpc' = "stop_zero_io"
            /\ trace' = Append(trace, <<"zero_speed", d>>)
            /\ UNCHANGED cdev
       ELSE /\ cpc' = StopAfter(d)
            /\ cdev' = "rear"
            /\ UNCHANGED trace
    /\ UNCHANGED <<orch, tpc, connected, callbacks, cop, entry, raised, ret, dvars>>

\* ModbusManager.write_register returns True or False, never raises
StopZeroDone(d) ==
    /\ cpc = "stop_zero_io"
    /\ cdev = d
    /\ UNCHANGED trace
    /\ cpc' = StopAfter(d)
    /\ cdev' = "rear"
    /\ UNCHANGED <<orch, tpc, connected, callbacks, cop, entry, raised, ret, dvars>>

\* A stop that tells no receiver
StopNotifiesNever == FALSE

\* A stop that notifies only when it is called by itself
StopNotifiesStandalone == callbacks.mode /\ cop.name = "stop_motion"

\* if self._on_mode_change: at the end of stop_motion
StopNotifies == callbacks.mode

\* if self._on_mode_change: self._on_mode_change(MotionMode.STOPPED)
StopNotify ==
    /\ cpc = "stop_notify"
    /\ trace' = IF StopNotifies
                THEN Append(trace, <<"mode_change", "STOPPED">>)
                ELSE trace
    /\ cpc' = IF cop.name = "start_motion" THEN "start_select" ELSE "idle"
    /\ cdev' = "front"
    /\ UNCHANGED <<orch, tpc, connected, callbacks, cop, entry, raised, ret, dvars>>

----------------------------------------------------------------------------
\* MotionController.start_motion

\* A selection that falls back to the walk preset when no pattern is given
SelectPatternDefault(mode, pattern) ==
    IF mode = "CUSTOM"
    THEN (IF pattern = None THEN "Walk" ELSE pattern)
    ELSE PRESET_PATTERNS(mode)

\* The pattern of a pattern-bearing mode: the caller's for CUSTOM, else the
\* preset; None makes start_motion log an error and return
SelectPattern(mode, pattern) ==
    IF mode = "CUSTOM" THEN pattern ELSE PRESET_PATTERNS(mode)

\* The calls of start_motion: a pattern is passed with CUSTOM only (the other
\* modes do not read it)
StartInputs ==
    {<<mode, None>> : mode \in Modes} \cup
    {<<"CUSTOM", pattern>> : pattern \in UserPatterns}

CallStartMotion(mode, pattern) ==
    /\ Enter(Op("start_motion", mode, pattern, FALSE, FALSE),
             [mode |-> current_mode, thread |-> NoThread, again |-> FALSE])
    /\ SelectPattern(mode, pattern) # None => Cardinality(Created) < MaxThreads
    /\ StopSignal
    /\ UNCHANGED <<current_mode, current_pattern, motion_thread, tpc,
                   connected, callbacks>>
    /\ ret' = None
    /\ UNCHANGED dvars

\* From the return of stop_motion() to self.current_mode = mode
StartSelect ==
    /\ cpc = "start_select"
    /\ IF cop.mode = "STOPPED"
       THEN /\ cpc' = "idle"
            /\ UNCHANGED <<current_mode, current_pattern, trace>>
       ELSE IF cop.mode = "MANUAL"
       THEN /\ current_mode' = "MANUAL"
            /\ trace' = IF callbacks.mode
                        THEN Append(trace, <<"mode_change", "MANUAL">>)
                        ELSE trace
            /\ cpc' = "idle"
            /\ UNCHANGED current_pattern
       ELSE IF SelectPattern(cop.mode, cop.pattern) = None
       THEN \* logger.error(...); return: current_pattern is assigned only
            \* on the preset branch, where it stays None
            /\ trace' = Append(trace, <<"log", "error">>)
            /\ cpc' = "idle"
            /\ UNCHANGED <<current_mode, current_pattern>>
       ELSE /\ current_pattern' = SelectPattern(cop.mode, cop.pattern)
            /\ current_mode' = cop.mode
            /\ cpc' = "start_clear"
            /\ UNCHANGED trace
    /\ UNCHANGED <<stop_event, motion_thread, tpc, connected, callbacks, cdev,
                   cop, entry, raised, ret, dvars>>

\* self._stop_event.clear()
StartClear ==
    /\ cpc = "start_clear"
    /\ stop_event' = FALSE
    /\ cpc' = "start_thread"
    /\ UNCHANGED <<current_mode, current_pattern, motion_thread, tpc,
                   connected, callbacks, cdev, cop, entry, trace,
                   raised, ret, dvars>>

\* self._motion_thread = Thread(target=self._motion_loop); .start(); then
\* the mode-change notification
StartThread ==
    /\ cpc = "start_thread"
    /\ \E t \in Threads :
         /\ tpc[t] = "none"
         /\ \A u \in Threads : u < t => tpc[u] # "none"
         /\ tpc' = [tpc EXCEPT ![t] = "start"]
         /\ motion_thread' = t
    /\ trace' = Append(trace, <<"thread", "start">>) \o
                (IF callbacks.mode
                 THEN << <<"mode_change", cop.mode>> >>
                 ELSE <<>>)
    /\ cpc' = "idle"
    /\ UNCHANGED <<current_mode, current_pattern, stop_event, connected,
                   callbacks, cdev, cop, entry, raised, ret, dvars>>

----------------------------------------------------------------------------
\* MotionController.emergency_stop

\* An emergency stop that leaves the stop event as it is
EsStopEventKept == stop_event

\* An emergency stop that clears the stop event
EsStopEventCleared == FALSE

\* self._stop_event.set()
EsStopEvent == TRUE

CallEmergencyStop ==
    /\ Enter(Op("emergency_stop", "STOPPED", None, FALSE, FALSE),
             [mode |-> current_mode, thread |-> NoThread, again |-> FALSE])
    /\ stop_event' = EsStopEvent
    /\ trace' = << <<"signal", "stop">> >>
    /\ cpc' = "es_dev"
    /\ cdev' = "front"
    /\ UNCHANGED <<current_mode, current_pattern, motion_thread, tpc,
                   connected, callbacks>>
    /\ ret' = None
    /\ UNCHANGED dvars

\* The statement after the try block of device d
EsAfter(d) == IF d = "front" THEN "es_dev" ELSE "es_finish"

\* No handler: the exception leaves emergency_stop
EsCatchPropagate(d) == "raise"

\* One try block around both devices: a fault skips what is left of it
EsCatchShared(d) == "es_finish"

\* except: pass, one handler per device
EsCatch(d) == EsAfter(d)

\* The trace with the note that a command on device d returned a failure
Failed(d) == IF Has(<<"failed", d>>) THEN trace
             ELSE Append(trace, <<"failed", d>>)

\* if self.<d>_servo.is_connected: self.<d>_servo.set_target_speed(0)
EsDev(d) ==
    /\ cpc = "es_dev"
    /\ cdev = d
    /\ IF connected[d]
       THEN /\ cpc' = "es_speed_io"
            /\ trace' = Append(trace, <<"zero_speed", d>>)
            /\ UNCHANGED cdev
       ELSE /\ cpc' = EsAfter(d)
            /\ cdev' = "rear"
            /\ UNCHANGED trace
    /\ UNCHANGED <<orch, tpc, connected, callbacks, cop, entry, raised, ret, dvars>>

\* set_target_speed(0) returns True or False (write_register never raises);
\* the result is dropped and enable(False) issues its read of the virtual DI
EsSpeedDone(d) ==
    /\ cpc = "es_speed_io"
    /\ cdev = d
    /\ \E ok \in BOOLEAN :
         trace' = (IF ok THEN trace ELSE Append(trace, <<"failed", d>>))
                  \o << <<"disable", d>> >>
    /\ cpc' = "es_enable_rd"
    /\ UNCHANGED <<orch, tpc, connected, callbacks, cdev, cop, entry,
                   raised, ret, dvars>>

\* What read_registers(P17_00_VIRTUAL_DI, 1) hands to enable: None on a
\* failure, a list without element, or a list with the register
ReadOutcomes == {"none", "empty", "value"}

\* A5ServoDevice.enable(False) after its read: None returns False, the empty
\* list raises IndexError at current[0], a value is written back
EsEnableRead(d) ==
    /\ cpc = "es_enable_rd"
    /\ cdev = d
    /\ \E r \in ReadOutcomes :
         IF r = "none"
         THEN /\ Goto(EsAfter(d))
              /\ trace' = Failed(d)
              /\ cdev' = "rear"
         ELSE IF r = "empty"
         THEN /\ Goto(EsCatch(d))
              /\ trace' = Append(trace, <<"raised", d>>)
              /\ cdev' = "rear"
         ELSE /\ Goto("es_enable_wr")
              /\ UNCHANGED <<trace, cdev>>
    /\ UNCHANGED <<orch, tpc, connected, callbacks, cop, entry,
                   ret, dvars>>

\* The write_register of enable returns True or False
EsEnableWrite(d) ==
    /\ cpc = "es_enable_wr"
    /\ cdev = d
    /\ \E ok \in BOOLEAN :
         trace' = IF ok THEN trace ELSE Failed(d)
    /\ cpc' = EsAfter(d)
    /\ cdev' = "rear"
    /\ UNCHANGED <<orch, tpc, connected, callbacks, cop, entry, raised, ret, dvars>>

\* An emergency stop that joins the sampling thread before it ends
EsJoinsThread == TRUE

\* emergency_stop has no join: no statement of it reads the thread
EsJoins == FALSE

\* self.current_mode = STOPPED and the mode-change notification
EsFinish ==
    /\ cpc = "es_finish"
    /\ EsJoins => \A t \in Threads : ~Alive(t)
    /\ current_mode' = "STOPPED"
    /\ trace' = IF callbacks.mode
                THEN Append(trace, <<"mode_change", "STOPPED">>)
                ELSE trace
    /\ cpc' = "idle"
    /\ cdev' = "front"
    /\ UNCHANGED <<current_pattern, stop_event, motion_thread, tpc, connected,
                   callbacks, cop, entry, raised, ret, dvars>>

----------------------------------------------------------------------------
\* MotionController.manual_move; a position is given (TRUE) or None (FALSE)

\* A test of the connection alone
GivenAlways(d) == TRUE

\* <d>_position is not None
Given(d) == IF d = "front" THEN cop.front ELSE cop.rear

MmAfter(d) == IF d = "front" THEN "mm_dev" ELSE "mm_notify"

\* if self.current_mode != MotionMode.MANUAL: logger.warning(...); return
CallManualMove(f, r) ==
    /\ Enter(Op("manual_move", "STOPPED", None, f, r), NoEntry)
    /\ IF current_mode # "MANUAL"
       THEN /\ trace' = << <<"log", "warning">> >>
            /\ cpc' = "idle"
       ELSE /\ trace' = <<>>
            /\ cpc' = "mm_dev"
    /\ cdev' = "front"
    /\ UNCHANGED <<orch, tpc, connected, callbacks>>
    /\ ret' = None
    /\ UNCHANGED dvars

\* if <d>_position is not None and self.<d>_servo.is_connected:
\*     self.<d>_servo.set_target_position(<d>_position)
MmDev(d) ==
    /\ cpc = "mm_dev"
    /\ cdev = d
    /\ IF Given(d) /\ connected[d]
       THEN /\ cpc' = "mm_io"
            /\ trace' = Append(trace, <<"position", d>>)
            /\ UNCHANGED cdev
       ELSE /\ cpc' = MmAfter(d)
            /\ cdev' = "rear"
            /\ UNCHANGED trace
    /\ UNCHANGED <<orch, tpc, connected, callbacks, cop, entry, raised, ret, dvars>>

\* write_32bit_value -> write_registers returns True or False
MmDone(d) ==
    /\ cpc = "mm_io"
    /\ cdev = d
    /\ UNCHANGED trace
    /\ cpc' = MmAfter(d)
    /\ cdev' = "rear"
    /\ UNCHANGED <<orch, tpc, connected, callbacks, cop, entry, raised, ret, dvars>>

\* if self._on_position_update: self._on_position_update(...)
MmNotify ==
    /\ cpc = "mm_notify"
    /\ trace' = IF callbacks.pos
                THEN Append(trace, <<"position_update", "manual">>)
                ELSE trace
    /\ cpc' = "idle"
    /\ cdev' = "front"
    /\ UNCHANGED <<orch, tpc, connected, callbacks, cop, entry, raised, ret, dvars>>

----------------------------------------------------------------------------
\* MotionController.manual_jog; servo is "front", "rear" or any other string

JogTargets == Dev \cup {"other"}

\* if servo == "front" and self.front_servo.is_connected:
\*     self.front_servo.jog(direction, speed)
\* elif servo == "rear" and self.rear_servo.is_connected: likewise
CallManualJog(servo) ==
    /\ Enter(Op("manual_jog", "STOPPED", None, FALSE, FALSE), NoEntry)
    /\ IF servo \in Dev /\ connected[servo]
       THEN /\ trace' = << <<"jog", servo>> >>
            /\ cpc' = "mj_io"
            /\ cdev' = servo
       ELSE /\ trace' = <<>>
            /\ cpc' = "idle"
            /\ cdev' = "front"
    /\ ret' = None
    /\ UNCHANGED <<orch, tpc, connected, callbacks, dvars>>

\* jog -> set_target_speed -> write_register returns True or False; manual_jog
\* drops the result and returns without a value
MjDone(d) ==
    /\ cpc = "mj_io"
    /\ cdev = d
    /\ cpc' = "idle"
    /\ cdev' = "front"
    /\ UNCHANGED <<orch, tpc, connected, callbacks, cop, entry, trace,
                   raised, ret, dvars>>

----------------------------------------------------------------------------
\* MotionController._motion_loop, run by sampling thread t

\* if self.current_pattern is None: return
\* cycle_time_s = self.current_pattern.cycle_time_ms / 1000.0 stays with the
\* thread: "test0" is the loop test of a thread whose cycle_time_s is 0
LoopEnter(t) ==
    /\ tpc[t] = "start"
    /\ tpc' = [tpc EXCEPT ![t] = IF current_pattern = None THEN "done"
                                 ELSE IF cycle_time_ms(current_pattern) = 0
                                 THEN "test0"
                                 ELSE "test"]
    /\ UNCHANGED <<orch, connected, callbacks, cpc, cdev, cop, entry,
                   trace, raised, ret, dvars>>

\* while not self._stop_event.is_set(): and the phase of the tick, where
\* elapsed % cycle_time_s raises ZeroDivisionError if cycle_time_s is 0, which
\* the except block ends the loop on
LoopTest(t) ==
    /\ tpc[t] \in {"test", "test0"}
    /\ tpc' = [tpc EXCEPT ![t] = IF stop_event \/ tpc[t] = "test0" THEN "done"
                                 ELSE "front"]
    /\ UNCHANGED <<orch, connected, callbacks, cpc, cdev, cop, entry,
                   trace, raised, ret, dvars>>

LoopAfter(d) == IF d = "front" THEN "rear" ELSE "notify"

\* if self.<d>_servo.is_connected: self.<d>_servo.set_target_position(pos)
LoopDev(t, d) ==
    /\ tpc[t] = d
    /\ tpc' = [tpc EXCEPT ![t] = IF connected[d] THEN IoPc(d) ELSE LoopAfter(d)]
    /\ UNCHANGED <<orch, connected, callbacks, cpc, cdev, cop, entry,
                   trace, raised, ret, dvars>>

\* The request returns True or False; the loop drops the result
LoopDevDone(t, d) ==
    /\ tpc[t] = IoPc(d)
    /\ tpc' = [tpc EXCEPT ![t] = LoopAfter(d)]
    /\ UNCHANGED <<orch, connected, callbacks, cpc, cdev, cop, entry,
                   trace, raised, ret, dvars>>

\* self._on_position_update(front_pos, rear_pos); time.sleep(update_interval)
LoopNotify(t) ==
    /\ tpc[t] = "notify"
    /\ tpc' = [tpc EXCEPT ![t] = "test"]
    /\ UNCHANGED <<orch, connected, callbacks, cpc, cdev, cop, entry,
                   trace, raised, ret, dvars>>

\* except Exception: the receiver raised; self._on_error(str(e)); break
LoopFault(t) ==
    /\ tpc[t] = "notify"
    /\ callbacks.pos
    /\ tpc' = [tpc EXCEPT ![t] = "done"]
    /\ UNCHANGED <<orch, connected, callbacks, cpc, cdev, cop, entry,
                   trace, raised, ret, dvars>>

----------------------------------------------------------------------------
\* MotionPattern.calculate_positions. The phase is k twelfths of a cycle, so
\* that every angle is a multiple of 30 degrees and its sine is 0, 1/2,
\* sqrt(3)/2 or 1 up to the rounding of the doubles. A double is kept as its
\* exact value and the sign of its rounding error: the error is what int()
\* sees when the exact value is a whole number.

\* The fields of a pattern: the presets and two patterns a caller builds
MotionPattern(pattern) ==
    CASE pattern = "Walk" ->
             [cycle_time_ms |-> cycle_time_ms(pattern),
              front_amplitude |-> 3000, rear_amplitude |-> 3000,
              phase_shift |-> 180, front_offset |-> 0, rear_offset |-> 0]
      [] pattern = "Gallop" ->
             [cycle_time_ms |-> cycle_time_ms(pattern),
              front_amplitude |-> 5000, rear_amplitude |-> 5000,
              phase_shift |-> 90, front_offset |-> 0, rear_offset |-> 0]
      [] pattern = "User" ->
             [cycle_time_ms |-> cycle_time_ms(pattern),
              front_amplitude |-> 3000, rear_amplitude |-> 5000,
              phase_shift |-> 90, front_offset |-> 100, rear_offset |-> -50]
      [] pattern = "Zero" ->
             [cycle_time_ms |-> cycle_time_ms(pattern),
              front_amplitude |-> 3000, rear_amplitude |-> 3000,
              phase_shift |-> 0, front_offset |-> 0, rear_offset |-> 0]

\* The phases of one cycle, in twelfths; phase + 1 is k + 12
Twelfths == 0..11

\* math.sin(2 * math.pi * phase + math.radians(phase_shift)) as the C library
\* returns it for phase = k / 12, k = 0 .. 23: <<twice the sine, error>>, where
\* twice the sine is 0, 1, -1, 2, -2 and 3 stands for sqrt(3) (never a whole
\* number of pulses, so its error does not matter); error is the sign of the
\* double minus the exact value, e.g. sin(2 pi / 12) = 0.49999999999999994 is
\* <<1, -1>> and sin(2 pi) = -2.4492935982947064e-16 is <<0, -1>>
SinTable(phase_shift) ==
    CASE phase_shift = 0 ->
           << <<0, 0>>, <<1, -1>>, <<3, 0>>, <<2, 0>>, <<3, 0>>, <<1, -1>>,
              <<0, 1>>, <<-1, -1>>, <<-3, 0>>, <<-2, 0>>, <<-3, 0>>,
              <<-1, -1>>, <<0, -1>>, <<1, -1>>, <<3, 0>>, <<2, 0>>, <<3, 0>>,
              <<1, -1>>, <<0, 1>>, <<-1, 1>>, <<-3, 0>>, <<-2, 0>>, <<-3, 0>>,
              <<-1, 1>> >>
      [] phase_shift = 90 ->
           << <<2, 0>>, <<3, 0>>, <<1, 1>>, <<0, 1>>, <<-1, 1>>, <<-3, 0>>,
              <<-2, 0>>, <<-3, 0>>, <<-1, -1>>, <<0, -1>>, <<1, 0>>, <<3, 0>>,
              <<2, 0>>, <<3, 0>>, <<1, -1>>, <<0, 1>>, <<-1, 1>>, <<-3, 0>>,
              <<-2, 0>>, <<-3, 0>>, <<-1, 1>>, <<0, -1>>, <<1, -1>>,
              <<3, 0>> >>
      [] phase_shift = 180 ->
           << <<0, 1>>, <<-1, 1>>, <<-3, 0>>, <<-2, 0>>, <<-3, 0>>, <<-1, 1>>,
              <<0, -1>>, <<1, 0>>, <<3, 0>>, <<2, 0>>, <<3, 0>>, <<1, -1>>,
              <<0, 1>>, <<-1, 1>>, <<-3, 0>>, <<-2, 0>>, <<-3, 0>>, <<-1, 1>>,
              <<0, -1>>, <<1, -1>>, <<3, 0>>, <<2, 0>>, <<3, 0>>, <<1, 0>> >>

math_sin(k, phase_shift) == SinTable(phase_shift)[k + 1]

\* The whole part of amplitude * sqrt(3) / 2
Root3Half(amplitude) ==
    CHOOSE r \in ((866 * amplitude) \div 1000)..((867 * amplitude) \div 1000 + 1) :
        /\ 4 * r * r <= 3 * amplitude * amplitude
        /\ 3 * amplitude * amplitude < 4 * (r + 1) * (r + 1)

\* int(offset + amplitude * sine): int() drops the fraction, towards zero
Truncated(offset, amplitude, sine) ==
    IF amplitude = 0 THEN offset
    ELSE IF sine[1] = 3
    THEN IF offset + Root3Half(amplitude) >= 0
         THEN offset + Root3Half(amplitude)
         ELSE offset + Root3Half(amplitude) + 1
    ELSE IF sine[1] = -3
    THEN IF offset - Root3Half(amplitude) >= 1
         THEN offset - Root3Half(amplitude) - 1
         ELSE offset - Root3Half(amplitude)
    ELSE LET twice == 2 * offset + amplitude * sine[1] IN
         IF twice % 2 = 0
         THEN IF twice > 0 /\ sine[2] < 0 THEN twice \div 2 - 1
              ELSE IF twice < 0 /\ sine[2] > 0 THEN twice \div 2 + 1
              ELSE twice \div 2
         ELSE IF twice > 0 THEN (twice - 1) \div 2
              ELSE (twice + 1) \div 2

\* The two amplitudes under each other's name
CalculatePositionsAmplitudesSwapped(p, k) ==
    <<Truncated(p.front_offset, p.rear_amplitude, math_sin(k, 0)),
      Truncated(p.rear_offset, p.front_amplitude,
                math_sin(k, p.phase_shift))>>

\* The two offsets under each other's name
CalculatePositionsOffsetsSwapped(p, k) ==
    <<Truncated(p.rear_offset, p.front_amplitude, math_sin(k, 0)),
      Truncated(p.front_offset, p.rear_amplitude,
                math_sin(k, p.phase_shift))>>

\* calculate_positions(phase) of pattern p at phase k / 12
calculate_positions(p, k) ==
    <<Truncated(p.front_offset, p.front_amplitude, math_sin(k, 0)),
      Truncated(p.rear_offset, p.rear_amplitude,
                math_sin(k, p.phase_shift))>>

\* A pattern and a phase, and the positions at that phase and a cycle later
NoTick == [p |-> MotionPattern("Walk"), k |-> 0, pc |-> "start",
          positions |-> <<0, 0>>, next |-> <<0, 0>>,
          sent |-> <<>>, notified |-> <<>>]

\* The function applied to its arguments, and to the phase a cycle later
Calculate ==
    /\ tick.pc = "start"
    /\ tick' = [tick EXCEPT !.pc = "calculated",
                            !.positions = calculate_positions(tick.p, tick.k),
                            !.next = calculate_positions(tick.p, tick.k + 12)]
    /\ UNCHANGED <<orch, tpc, connected, callbacks, cpc, cdev, cop, entry,
                   trace, raised, ret, status, vdi, loc, xf, modbus, custom>>

----------------------------------------------------------------------------
\* One sampling thread followed through its ticks: trace holds what the
\* present tick did

\* The except block with continue in the place of break
AfterCaughtContinue == "test"

\* except Exception as e: ... break
AfterCaught == "done"

\* except Exception as e: logger.error(...); if self._on_error:
\* self._on_error(str(e)); break
Caught(t, before, cause) ==
    /\ trace' = Append(before, <<"raised", cause>>) \o
                (IF callbacks.err THEN << <<"on_error", cause>> >> ELSE <<>>)
    /\ tpc' = [tpc EXCEPT ![t] = AfterCaught]

\* The receiver is called with the positions only when connected
NotifiesWhenConnected == callbacks.pos /\ \E d \in Dev : connected[d]

\* if self._on_position_update:
Notifies == callbacks.pos

\* The position of device d in the pair calculate_positions returns
Of(d, positions) == IF d = "front" THEN positions[1] ELSE positions[2]

\* The locals of a thread that has not computed a tick yet
Ticking == [NoTick EXCEPT !.pc = "ticking"]

\* while not self._stop_event.is_set(): and the phase of the tick, which is
\* (elapsed % cycle_time_s) / cycle_time_s, a number in [0, 1), and
\* front_pos, rear_pos = self.current_pattern.calculate_positions(phase)
TickTest(t) ==
    /\ tpc[t] \in {"test", "test0"}
    /\ IF stop_event
       THEN tpc' = [tpc EXCEPT ![t] = "done"] /\ UNCHANGED <<trace, tick>>
       ELSE IF tpc[t] = "test0"
       THEN Caught(t, <<>>, "ZeroDivisionError") /\ UNCHANGED tick
       ELSE /\ tpc' = [tpc EXCEPT ![t] = "front"]
            /\ trace' = <<>>
            /\ \E k \in Twelfths :
                 tick' = [Ticking EXCEPT
                            !.pc = "calculated",
                            !.p = MotionPattern(current_pattern),
                            !.k = k,
                            !.positions =
                                calculate_positions(
                                    MotionPattern(current_pattern), k)]
    /\ UNCHANGED <<orch, connected, callbacks, cpc, cdev, cop, entry,
                   raised, ret, status, vdi, loc, xf, modbus, custom>>

\* set_target_position(front_pos) or (rear_pos) returns True or False; the
\* loop drops the result
TickDevDone(t, d) ==
    /\ tpc[t] = IoPc(d)
    /\ \E ok \in BOOLEAN :
         trace' = Append(trace, <<IF ok THEN "sent" ELSE "failed", d>>)
    /\ tick' = [tick EXCEPT !.sent = Append(@, <<d, Of(d, tick.positions)>>)]
    /\ tpc' = [tpc EXCEPT ![t] = LoopAfter(d)]
    /\ UNCHANGED <<orch, connected, callbacks, cpc, cdev, cop, entry,
                   raised, ret, status, vdi, loc, xf, modbus, custom>>

\* if self._on_position_update: self._on_position_update(front_pos, rear_pos),
\* which may raise; time.sleep(update_interval)
TickNotify(t) ==
    /\ tpc[t] = "notify"
    /\ IF Notifies
       THEN \/ /\ trace' = Append(trace, <<"position_update", "returned">>)
               /\ tick' = [tick EXCEPT
                              !.pc = "slept",
                              !.notified = Append(@, tick.positions)]
               /\ tpc' = [tpc EXCEPT ![t] = "test"]
            \/ /\ Caught(t, Append(trace, <<"position_update", "raised">>),
                         "receiver")
               /\ tick' = [tick EXCEPT
                              !.pc = "raised",
                              !.notified = Append(@, tick.positions)]
       ELSE /\ tpc' = [tpc EXCEPT ![t] = "test"]
            /\ tick' = [tick EXCEPT !.pc = "slept"]
            /\ UNCHANGED trace
    /\ UNCHANGED <<orch, connected, callbacks, cpc, cdev, cop, entry,
                   raised, ret, status, vdi, loc, xf, modbus, custom>>

\* self._stop_event.set() by a stop path of the caller's thread
TickStop ==
    /\ ~stop_event
    /\ stop_event' = TRUE
    /\ UNCHANGED <<current_mode, current_pattern, motion_thread, tpc,
                   connected, callbacks, cpc, cdev, cop, entry, trace,
                   raised, ret, dvars>>

----------------------------------------------------------------------------
\* One device (A5ServoDevice) on its transport (ModbusManager), driven by the
\* caller's thread alone

DevUnderTest == "front"

\* The variables of the orchestrator that no device operation touches
others == <<orch, tpc, callbacks, cdev, modbus, custom, tick>>

\* ModbusManager.read_registers(address, count) where the registers hold one
\* of words: None without a request when not connected; else None (error
\* response, exception) or the list of the registers the response carries
ReadRegisters(count, words) ==
    IF ~connected[DevUnderTest] THEN {NoneResult}
    ELSE {NoneResult} \cup
         {List(regs) : regs \in UNION {[1..n -> words] : n \in 0..count}}

\* ModbusManager.write_register: False without a request when not connected;
\* else True, or False on an error response or an exception
WriteRegister == IF connected[DevUnderTest] THEN BOOLEAN ELSE {FALSE}

\* The request reaches the wire only when the transport is connected
Requested(e) == IF connected[DevUnderTest] THEN <<e>> ELSE <<>>

\* if speed: (a list with an element)
Truthy(result) == result.ok /\ Len(result.regs) > 0

\* ModbusManager.read_32bit_value after its read_registers(address, count=2):
\* None, or (registers[1] << 16) | registers[0]
Read32(result) ==
    IF ~result.ok \/ Len(result.regs) < 2
    THEN [ok |-> FALSE, val |-> Wide(0, 0)]
    ELSE [ok |-> TRUE, val |-> Wide(result.regs[2], result.regs[1])]

\* A conversion that subtracts 0xFFFFFFFF
SignedOffByOne(pos) ==
    IF pos.hi > 32767
    THEN (pos.hi - 65536) * 65536 + pos.lo + 1
    ELSE pos.hi * 65536 + pos.lo

\* if pos > 0x7FFFFFFF: pos = pos - 0x100000000 (pos exceeds 0x7FFFFFFF
\* exactly when its high half exceeds 0x7FFF)
Signed(pos) ==
    IF pos.hi > 32767
    THEN (pos.hi - 65536) * 65536 + pos.lo
    ELSE pos.hi * 65536 + pos.lo

\* if val > 32767: val = val - 65536
Signed16(val) == IF val > 32767 THEN val - 65536 ELSE val

\* The sub-reads of read_status in order, the position of the caller at each
\* and the number of registers each asks for
StatusFields ==
    <<"position", "speed", "torque", "fault_code", "di_status", "do_status">>
RsPcs ==
    <<"rs_position", "rs_speed", "rs_torque", "rs_fault_code",
      "rs_di_status", "rs_do_status">>
Registers(f) == IF f = "position" THEN 2 ELSE 1

\* The result of the sub-read of field f can be used
Taken(f, result) ==
    IF f = "position" THEN Read32(result).ok ELSE Truthy(result)

\* A status read that zeroes the field of a failed sub-read
StatusAfterCleared(f, result) ==
    IF ~Taken(f, result) THEN [status EXCEPT ![f] = 0]
    ELSE IF f = "position"
    THEN [status EXCEPT !.position = Signed(Read32(result).val)]
    ELSE IF f \in {"speed", "torque"}
    THEN [status EXCEPT ![f] = Signed16(result.regs[1])]
    ELSE [status EXCEPT ![f] = result.regs[1]]

\* self.status after the sub-read of field f returned result
StatusAfter(f, result) ==
    IF ~Taken(f, result) THEN status
    ELSE IF f = "position"
    THEN [status EXCEPT !.position = Signed(Read32(result).val)]
    ELSE IF f \in {"speed", "torque"}
    THEN [status EXCEPT ![f] = Signed16(result.regs[1])]
    ELSE [status EXCEPT ![f] = result.regs[1]]

\* Register contents the drive answers a status read with
StatusWords == {32767, 32768}

\* A status read that goes on without a connection
ReadStatusUnguarded == TRUE

\* if not self.is_connected: return False
ReadStatusGuard == connected[DevUnderTest]

CallReadStatus ==
    /\ Enter(Op("read_status", "STOPPED", None, FALSE, FALSE), NoEntry)
    /\ trace' = <<>>
    /\ loc' = NoLoc
    /\ IF ReadStatusGuard
       THEN cpc' = RsPcs[1] /\ ret' = None
       ELSE cpc' = "idle" /\ ret' = "False"
    /\ UNCHANGED <<others, connected, status, vdi, xf>>

\* The i-th sub-read and the assignment to the status that follows it
SubRead(i, words) ==
    /\ cpc = RsPcs[i]
    /\ \E result \in ReadRegisters(Registers(StatusFields[i]), words) :
         /\ loc' = [loc EXCEPT !.result = result]
         /\ status' = StatusAfter(StatusFields[i], result)
         /\ trace' = trace \o Requested(<<"read", StatusFields[i]>>) \o
                     (IF Taken(StatusFields[i], result) THEN <<>>
                      ELSE << <<"failed", StatusFields[i]>> >>)
    /\ cpc' = IF i < Len(RsPcs) THEN RsPcs[i + 1] ELSE "rs_return"
    /\ UNCHANGED <<others, connected, cop, entry, raised, ret, vdi, xf>>

\* return True
RsReturn ==
    /\ cpc = "rs_return"
    /\ cpc' = "idle"
    /\ ret' = "True"
    /\ loc' = NoLoc
    /\ UNCHANGED <<others, connected, cop, entry, trace, raised, status,
                   vdi, xf>>

\* Python's & and | on integers, bit by bit from the lowest; a negative
\* operand is the infinite two's complement that Python gives ~x
RECURSIVE And(_, _)
And(a, b) ==
    IF a = 0 \/ b = 0 THEN 0
    ELSE (a % 2) * (b % 2) + 2 * And(a \div 2, b \div 2)

RECURSIVE Or(_, _)
Or(a, b) ==
    IF a = 0 THEN b
    ELSE IF b = 0 THEN a
    ELSE (IF a % 2 = 1 \/ b % 2 = 1 THEN 1 ELSE 0)
         + 2 * Or(a \div 2, b \div 2)

\* Python's ~x
Invert(x) == -x - 1

\* 0x0001, the SON bit of the virtual DI, and 0x4000, its ALMRST bit
SON == 1
ALMRST == 16384

\* An enable that writes the SON bit alone
EnableValueOverwrite(current, state) == IF state THEN SON ELSE 0

\* new_value of enable: current[0] | 0x0001 or current[0] & ~0x0001
EnableValue(current, state) ==
    IF state THEN Or(current, SON) ELSE And(current, Invert(SON))

\* new_value of the first write of clear_fault: current[0] | 0x4000
SetValue(current) == Or(current, ALMRST)

\* A second write that sends back what was read
ClearValueKept(current) == current

\* new_value of the second write of clear_fault: current[0] & ~0x4000
ClearValue(current) == And(current, Invert(ALMRST))

\* Contents of the virtual DI before the operations: every combination of
\* the bits 0, 1, 14 and 15
VdiValues ==
    {a + b + c + d : a \in {0, 1}, b \in {0, 2}, c \in {0, 16384},
                     d \in {0, 32768}}

\* A5ServoDevice.enable(state) up to its read
CallEnable(state) ==
    /\ Enter(Op("enable", "STOPPED", None, FALSE, FALSE), NoEntry)
    /\ loc' = [NoLoc EXCEPT !.arg = state,
                            !.before = IF Returned("enable") /\ ret = "True"
                                       THEN loc.before ELSE vdi]
    /\ trace' = <<>>
    /\ cpc' = "vdi_read"
    /\ ret' = None
    /\ UNCHANGED <<others, connected, status, vdi, xf>>

\* A5ServoDevice.clear_fault up to its read
CallClearFault ==
    /\ Enter(Op("clear_fault", "STOPPED", None, FALSE, FALSE), NoEntry)
    /\ loc' = NoLoc
    /\ trace' = <<>>
    /\ cpc' = "vdi_read"
    /\ ret' = None
    /\ UNCHANGED <<others, connected, status, vdi, xf>>

\* current = read_registers(P17_00_VIRTUAL_DI, 1): None returns False, a list
\* without element raises IndexError at current[0]
VdiRead ==
    /\ cpc = "vdi_read"
    /\ \E result \in ReadRegisters(1, {vdi}) :
         /\ loc' = [loc EXCEPT !.result = result,
                               !.current = IF Truthy(result)
                                           THEN result.regs[1] ELSE @]
         /\ IF ~result.ok
            THEN Goto("idle") /\ ret' = "False"
            ELSE IF ~Truthy(result)
            THEN Goto("raise") /\ ret' = None
            ELSE /\ Goto(IF cop.name = "enable" THEN "en_write" ELSE "cf_set")
                 /\ ret' = None
    /\ trace' = trace \o Requested(<<"read", "vdi">>)
    /\ UNCHANGED <<others, connected, cop, entry, status, vdi, xf>>

\* One write_register(P17_00_VIRTUAL_DI, value): the drive stores the value
\* of a request that succeeds
Write(value, ok) ==
    /\ vdi' = IF ok THEN value ELSE vdi
    /\ loc' = [loc EXCEPT !.writes = Append(@, value)]
    /\ trace' = Append(trace, <<"write", IF ok THEN "ok" ELSE "failed">>)

\* An enable that keeps the flag of the status up to date
StatusAfterEnableSet(state, ok) ==
    IF ok THEN [status EXCEPT !.is_enabled = state] ELSE status

\* self.status after enable: enable assigns no field of it
StatusAfterEnable(state, ok) == status

\* return self.modbus.write_register(P17_00_VIRTUAL_DI, new_value)
EnWrite ==
    /\ cpc = "en_write"
    /\ \E ok \in WriteRegister :
         /\ Write(EnableValue(loc.current, loc.arg), ok)
         /\ ret' = Bool(ok)
         /\ status' = StatusAfterEnable(loc.arg, ok)
    /\ cpc' = "idle"
    /\ UNCHANGED <<others, connected, cop, entry, raised, xf>>

\* if not write_register(P17_00_VIRTUAL_DI, current[0] | 0x4000): return False
CfSet ==
    /\ cpc = "cf_set"
    /\ \E ok \in WriteRegister :
         /\ Write(SetValue(loc.current), ok)
         /\ cpc' = IF ok THEN "cf_clear" ELSE "idle"
         /\ ret' = IF ok THEN None ELSE "False"
    /\ UNCHANGED <<others, connected, cop, entry, raised, status, xf>>

\* return write_register(P17_00_VIRTUAL_DI, current[0] & ~0x4000)
CfClear ==
    /\ cpc = "cf_clear"
    /\ \E ok \in WriteRegister :
         /\ Write(ClearValue(loc.current), ok)
         /\ ret' = Bool(ok)
    /\ cpc' = "idle"
    /\ UNCHANGED <<others, connected, cop, entry, raised, status, xf>>

\* set_target_position, set_target_speed, set_target_torque and jog: one
\* write request each, whose result is returned
Commands ==
    {"set_target_position", "set_target_speed", "set_target_torque", "jog"}

DevCommand(op) ==
    /\ Enter(Op(op, "STOPPED", None, FALSE, FALSE), NoEntry)
    /\ \E ok \in WriteRegister :
         /\ ret' = Bool(ok)
         /\ trace' = Requested(<<"write", IF ok THEN "ok" ELSE "failed">>)
    /\ loc' = NoLoc
    /\ UNCHANGED <<orch, tpc, callbacks, cdev, modbus, tick, connected, cpc, status,
                   vdi, xf, custom>>

\* The arguments of jog: every direction and every speed of the range
Directions == {-1, 0, 1}
JogSpeeds == 0..32767

\* actual_speed = speed if direction > 0 else -speed, and 0 for direction 0
actual_speed(direction, speed) ==
    IF direction = 0 THEN 0
    ELSE IF direction > 0 THEN speed ELSE -speed

\* An encoding that drops the sign
Low16Magnitude(speed) == IF speed < 0 THEN -speed ELSE speed

\* speed & 0xFFFF: the low 16 bits of the two's complement of speed
Low16(speed) == speed % 65536

\* jog(direction, speed) with direction = loc.arg and speed = loc.current:
\* return self.set_target_speed(actual_speed), which is
\* write_register(P31_02_CMD_SPEED, actual_speed & 0xFFFF)
Jog ==
    /\ Enter(Op("jog", "STOPPED", None, FALSE, FALSE), NoEntry)
    /\ cop.name = "init"
    /\ \E ok \in WriteRegister :
         /\ ret' = Bool(ok)
         /\ trace' = Requested(<<"write", IF ok THEN "ok" ELSE "failed">>)
    /\ loc' = [loc EXCEPT
                 !.writes = <<Low16(actual_speed(loc.arg, loc.current))>>]
    /\ UNCHANGED <<orch, tpc, callbacks, cdev, modbus, tick, connected, cpc,
                   status, vdi, xf, custom>>

\* The custom registers: custom_registers in the order of its keys, every
\* entry with its address, its width and the value read last (None: ok FALSE)
CustomAddresses == {4096, 4098}
NoValue == [ok |-> FALSE, val |-> Wide(0, 0)]

\* Position of address in the dictionary, 0 if it is not a key
Key(address) ==
    IF \E i \in 1..Len(custom) : custom[i].address = address
    THEN CHOOSE i \in 1..Len(custom) : custom[i].address = address
    ELSE 0

\* add_custom_register: self.custom_registers[address] = {..., "value": None};
\* a key that exists keeps its place
AddCustomRegister(address, is_32bit) ==
    /\ Enter(Op("add_custom_register", "STOPPED", None, FALSE, FALSE), NoEntry)
    /\ LET info == [address |-> address, is_32bit |-> is_32bit,
                    value |-> NoValue]
       IN custom' = IF Key(address) = 0 THEN Append(custom, info)
                    ELSE [custom EXCEPT ![Key(address)] = info]
    /\ trace' = <<>>
    /\ ret' = None
    /\ loc' = NoLoc
    /\ UNCHANGED <<orch, tpc, callbacks, cdev, modbus, tick, connected, cpc, status,
                   vdi, xf>>

\* results = {}; for address, info in self.custom_registers.items():
CallReadCustom ==
    /\ Enter(Op("read_custom_registers", "STOPPED", None, FALSE, FALSE),
             NoEntry)
    /\ trace' = <<>>
    /\ loc' = [NoLoc EXCEPT !.current = 1]
    /\ IF Len(custom) = 0
       THEN cpc' = "idle" /\ ret' = "dict"
       ELSE cpc' = "rc_read" /\ ret' = None
    /\ UNCHANGED <<orch, tpc, callbacks, cdev, modbus, tick, connected, status, vdi,
                   xf, custom>>

\* value = regs[0] if regs else None
Value16(result) ==
    IF Truthy(result) THEN [ok |-> TRUE, val |-> Wide(0, result.regs[1])]
    ELSE NoValue

\* A loop that gives up at the first read that fails
CustomNextGivesUp(i, value) == IF value.ok THEN i + 1 ELSE Len(custom) + 1

\* The entry the for loop takes after entry i, whatever its read returned
CustomNext(i, value) == i + 1

\* Register contents the drive answers the reads of one device with
DeviceWords == {32768}

\* One turn of the for loop: the read of the entry, info["value"] = value and
\* results[address] = value; after the last entry, return results
CustomRead ==
    /\ cpc = "rc_read"
    /\ LET i == loc.current
           info == custom[i]
       IN \E result \in ReadRegisters(IF info.is_32bit THEN 2 ELSE 1,
                                      DeviceWords) :
            LET value == IF info.is_32bit THEN Read32(result)
                         ELSE Value16(result)
            IN /\ custom' = [custom EXCEPT ![i].value = value]
               /\ loc' = [loc EXCEPT
                            !.current = CustomNext(i, value),
                            !.result = result,
                            !.results = Append(@, [address |-> info.address,
                                                   value |-> value])]
               /\ trace' = trace \o Requested(<<"read", "custom">>)
               /\ IF CustomNext(i, value) > Len(custom)
                  THEN cpc' = "idle" /\ ret' = "dict"
                  ELSE cpc' = "rc_read" /\ ret' = None
    /\ UNCHANGED <<orch, tpc, callbacks, cdev, modbus, tick, connected, cop, entry,
                   raised, status, vdi, xf>>

\* ModbusManager.write_32bit_value and read_32bit_value on a transport that
\* stores what is written, and the conversion read_status applies

\* [low_word, high_word] of write_32bit_value, high word first
SplitHighFirst(value) == <<(value \div 65536) % 65536, value % 65536>>

\* low_word = value & 0xFFFF; high_word = (value >> 16) & 0xFFFF
Split(value) == <<value % 65536, (value \div 65536) % 65536>>

\* Contents of a register and values written: the ends of the ranges and the
\* values around a change of sign or of word
XferWords == {0, 1, 32767, 32768, 65535}
XferValues ==
    {-2147483647 - 1, -2147483647, -65537, -65536, -65535, -32769, -32768,
     -1, 0, 1, 32767, 32768, 65535, 65536, 65537, 2147483646, 2147483647}

\* The state of the caller and of the orchestrator
caller == <<orch, tpc, connected, callbacks, cpc, cdev, cop, entry, trace,
            raised, ret, modbus, custom, tick>>

\* write_32bit_value(address, value) -> write_registers(address, [low, high])
XferWrite(value) ==
    /\ xf' = [NoXf EXCEPT !.mem = Split(value), !.written = TRUE,
                          !.v = value]
    /\ UNCHANGED <<caller, status, vdi, loc>>

\* read_32bit_value(address)
XferRead ==
    /\ xf.pc = "stored"
    /\ Read32(List(xf.mem)).ok
    /\ xf' = [xf EXCEPT !.pc = "read", !.got = Read32(List(xf.mem)).val]
    /\ UNCHANGED <<caller, status, vdi, loc>>

\* read_status: self.status.position = pos after the conversion
XferDecode ==
    /\ xf.pc = "read"
    /\ xf' = [xf EXCEPT !.pc = "decoded"]
    /\ status' = [status EXCEPT !.position = Signed(xf.got)]
    /\ UNCHANGED <<caller, vdi, loc>>

----------------------------------------------------------------------------
\* The transport (ModbusManager) by itself: the serial client it holds, the
\* requests it passes to that client and the register pair of a position
\* command at the other end of the line

\* ModbusManager.__init__: no client yet
NoModbus == [client |-> None, connected |-> FALSE]

\* ModbusManager.is_connected
IsConnected == modbus.connected /\ modbus.client # None

\* `if not self.is_connected` tested on the client alone
NotConnectedNoClient == modbus.client = None

\* `if not self.is_connected:` at the head of every data operation
NotConnected == ~IsConnected

\* `if self.client:` of disconnect, passed without a client
ClientPresentAlways == TRUE

\* `if self.client:` of disconnect
ClientPresent == modbus.client # None

DataOps == {"read_registers", "write_register", "write_registers",
            "read_32bit_value", "write_32bit_value"}
ReadOps == {"read_registers", "read_32bit_value"}

\* The method of the serial client a data operation calls
Method(op) ==
    CASE op \in ReadOps -> "read_holding_registers"
      [] op = "write_register" -> "write_register"
      [] OTHER -> "write_registers"

\* What the data operation returns when it fails
Failure(op) == IF op \in ReadOps THEN "None" ELSE "False"

\* How a call of the serial client ends: a normal response (for a read, "short"
\* is one that carries fewer registers than read_32bit_value needs), a response
\* with isError(), a ModbusException (time-out, no answer) or another exception
\* (the serial line)
Responses(op) ==
    {"ok", "error", "ModbusException", "Exception"}
        \cup (IF op \in ReadOps THEN {"short"} ELSE {})

\* The value returned after the response of the last request
Result(op, response) ==
    CASE response \in {"error", "ModbusException", "Exception"} -> Failure(op)
      [] op = "read_registers" -> "list"
      [] op = "read_32bit_value" ->
             IF response = "short" THEN "None" ELSE "value"
      [] OTHER -> "True"

\* A failed request is sent once more
RetriesOnce == TRUE

\* No data operation has a loop around its call of the client
Retries == FALSE

\* write_32bit_value as two write_register calls, one word each
Write32WordByWord(value) ==
    << [at |-> 1, words |-> <<value % 65536>>],
       [at |-> 2, words |-> <<(value \div 65536) % 65536>>] >>

\* write_32bit_value: write_registers(address, [low_word, high_word]); at is
\* the place of the first word, counted from the address
Write32Payloads(value) == << [at |-> 1, words |-> Split(value)] >>

\* The requests a data operation makes if none fails; only the payload of
\* write_32bit_value is followed
Payloads(op, value) ==
    IF op = "write_32bit_value" THEN Write32Payloads(value)
    ELSE << [at |-> 1, words |-> <<>>] >>

\* The responses a call can meet, request by request: the operation returns at
\* the first failure
Runs(op, plan) ==
    {x \in UNION {[1..n -> Responses(op)] : n \in 1..Len(plan)} :
        /\ \A i \in 1..(Len(x) - 1) : x[i] \in {"ok", "short"}
        /\ Len(x) < Len(plan) => x[Len(x)] \notin {"ok", "short"}}
    \cup (IF Retries
          THEN {<<f, r>> : f \in {"error", "ModbusException", "Exception"},
                           r \in Responses(op)}
          ELSE {})

\* The payload the i-th response of a run answers
Answered(plan, i) == IF i > Len(plan) THEN plan[Len(plan)] ELSE plan[i]

\* The register pair after a write request that the drive accepted
Stored(mem, payload) ==
    [k \in 1..2 |->
        IF k >= payload.at /\ k < payload.at + Len(payload.words)
        THEN payload.words[k - payload.at + 1]
        ELSE mem[k]]

\* The register pair after the requests of a run
RECURSIVE StoredAll(_, _, _, _)
StoredAll(mem, plan, x, i) ==
    IF i > Len(x) THEN mem
    ELSE StoredAll(IF x[i] = "ok" THEN Stored(mem, Answered(plan, i)) ELSE mem,
                   plan, x, i + 1)

\* The variables no operation of the transport touches
untouched ==
    <<orch, tpc, connected, callbacks, cdev, status, vdi, custom, tick>>

\* ModbusManager.connect: the constructor of the client or its connect() may
\* raise, and connect() may return False
ModbusConnect ==
    /\ Enter(Op("modbus_connect", "STOPPED", None, FALSE, FALSE), NoEntry)
    /\ \E outcome \in {"no_client", "raises", "refused", "opened"} :
         /\ modbus' = [client |-> IF outcome = "no_client" THEN modbus.client
                                  ELSE "client",
                       connected |-> outcome = "opened"]
         /\ trace' = << <<"open", outcome>> >>
         /\ ret' = Bool(outcome = "opened")
    /\ UNCHANGED <<untouched, cpc, loc, xf>>

\* ModbusManager.disconnect; close() of a client that is not there raises
ModbusDisconnect ==
    /\ cpc = "idle"
    /\ cop' = Op("modbus_disconnect", "STOPPED", None, FALSE, FALSE)
    /\ entry' = [NoEntry EXCEPT !.again = Returned("modbus_disconnect")]
    /\ raised' = (ClientPresent /\ modbus.client = None)
    /\ IF ClientPresent /\ modbus.client # None
       THEN /\ modbus' = [modbus EXCEPT !.connected = FALSE]
            /\ trace' = << <<"close", "ok">> >>
       ELSE /\ trace' = <<>>
            /\ UNCHANGED modbus
    /\ ret' = None
    /\ UNCHANGED <<untouched, cpc, loc, xf>>

\* A transport that takes a request without an answer for the loss of the link
ConnectedAfterLossDetected(response) == modbus.connected /\ response = "ok"

\* self._connected after a request: no data operation assigns it
ConnectedAfter(response) == modbus.connected

\* read_registers, write_register, write_registers, read_32bit_value and
\* write_32bit_value; value is what write_32bit_value is to write
ModbusCall(op, value) ==
    /\ Enter(Op(op, "STOPPED", None, FALSE, FALSE), NoEntry)
    /\ IF NotConnected
       THEN /\ trace' = <<>>
            /\ ret' = Failure(op)
            /\ loc' = [loc EXCEPT !.arg = value, !.before = xf.mem,
                                  !.writes = <<>>]
            /\ UNCHANGED <<xf, modbus>>
       ELSE \E x \in Runs(op, Payloads(op, value)) :
              /\ modbus' = [modbus EXCEPT
                              !.connected = ConnectedAfter(x[Len(x)])]
              /\ trace' = [i \in 1..Len(x) |-> <<Method(op), x[i]>>]
              /\ ret' = Result(op, x[Len(x)])
              /\ loc' = [loc EXCEPT
                           !.arg = value, !.before = xf.mem,
                           !.writes = [i \in 1..Len(x) |->
                                          Answered(Payloads(op, value), i)]]
              /\ xf' = [xf EXCEPT
                          !.mem = StoredAll(xf.mem, Payloads(op, value), x, 1)]
    /\ UNCHANGED <<untouched, cpc>>

----------------------------------------------------------------------------
Next ==
    \/ \E on \in BOOLEAN : SetCallbacks(on)
    \/ \E d \in Dev : Connect(d)
    \/ \E d \in Dev : Disconnect(d)
    \/ CallStopMotion
    \/ StopCheck
    \/ JoinReturn
    \/ JoinTimeout
    \/ StopReset
    \/ \E d \in Dev : StopZero(d)
    \/ \E d \in Dev : StopZeroDone(d)
    \/ StopNotify
    \/ \E a \in StartInputs : CallStartMotion(a[1], a[2])
    \/ StartSelect
    \/ StartClear
    \/ StartThread
    \/ CallEmergencyStop
    \/ \E d \in Dev : EsDev(d)
    \/ \E d \in Dev : EsSpeedDone(d)
    \/ \E d \in Dev : EsEnableRead(d)
    \/ \E d \in Dev : EsEnableWrite(d)
    \/ EsFinish
    \/ \E f, r \in BOOLEAN : CallManualMove(f, r)
    \/ \E d \in Dev : MmDev(d)
    \/ \E d \in Dev : MmDone(d)
    \/ MmNotify
    \/ \E servo \in JogTargets : CallManualJog(servo)
    \/ \E d \in Dev : MjDone(d)
    \/ \E t \in Threads : LoopEnter(t)
    \/ \E t \in Threads : LoopTest(t)
    \/ \E t \in Threads, d \in Dev : LoopDev(t, d)
    \/ \E t \in Threads, d \in Dev : LoopDevDone(t, d)
    \/ \E t \in Threads : LoopNotify(t)
    \/ \E t \in Threads : LoopFault(t)

Spec == Init /\ [][Next]_vars

\* One device reading its status
InitStatus ==
    /\ InitCaller
    /\ status = ServoStatus
    /\ vdi = Untracked
    /\ loc = NoLoc
    /\ xf = Untracked
    /\ modbus = Untracked
    /\ custom = Untracked
    /\ tick = Untracked

NextStatus ==
    \/ Connect(DevUnderTest)
    \/ Disconnect(DevUnderTest)
    \/ CallReadStatus
    \/ \E i \in 1..Len(RsPcs) : SubRead(i, StatusWords)
    \/ RsReturn

SpecStatus == InitStatus /\ [][NextStatus]_vars

\* One device whose virtual DI is written by enable and clear_fault alone
InitVdi ==
    /\ InitCaller
    /\ status = Untracked
    /\ vdi \in VdiValues
    /\ loc = NoLoc
    /\ xf = Untracked
    /\ modbus = Untracked
    /\ custom = Untracked
    /\ tick = Untracked

NextVdi ==
    \/ Connect(DevUnderTest)
    \/ Disconnect(DevUnderTest)
    \/ \E state \in BOOLEAN : CallEnable(state)
    \/ CallClearFault
    \/ VdiRead
    \/ EnWrite
    \/ CfSet
    \/ CfClear

SpecVdi == InitVdi /\ [][NextVdi]_vars

\* One device with every operation it has and one custom register
InitDevice ==
    /\ InitCaller
    /\ status = ServoStatus
    /\ vdi = 0
    /\ loc = NoLoc
    /\ xf = Untracked
    /\ modbus = Untracked
    /\ custom = <<>>
    /\ tick = Untracked

NextDevice ==
    \/ Connect(DevUnderTest)
    \/ Disconnect(DevUnderTest)
    \/ CallReadStatus
    \/ \E i \in 1..Len(RsPcs) : SubRead(i, DeviceWords)
    \/ RsReturn
    \/ \E state \in BOOLEAN : CallEnable(state)
    \/ CallClearFault
    \/ VdiRead
    \/ EnWrite
    \/ CfSet
    \/ CfClear
    \/ \E op \in Commands : DevCommand(op)
    \/ \E address \in {4096} : AddCustomRegister(address, TRUE)
    \/ CallReadCustom
    \/ CustomRead

SpecDevice == InitDevice /\ [][NextDevice]_vars

\* One device whose custom registers are added and read
InitCustom ==
    /\ InitCaller
    /\ status = Untracked
    /\ vdi = Untracked
    /\ loc = NoLoc
    /\ xf = Untracked
    /\ modbus = Untracked
    /\ custom = <<>>
    /\ tick = Untracked

NextCustom ==
    \/ Connect(DevUnderTest)
    \/ Disconnect(DevUnderTest)
    \/ \E address \in CustomAddresses, is_32bit \in BOOLEAN :
           AddCustomRegister(address, is_32bit)
    \/ CallReadCustom
    \/ CustomRead

SpecCustom == InitCustom /\ [][NextCustom]_vars

\* A register pair that holds any two words, written and read back
InitXfer ==
    /\ InitCaller
    /\ status = ServoStatus
    /\ vdi = Untracked
    /\ loc = Untracked
    /\ xf \in {[NoXf EXCEPT !.mem = <<low, high>>] :
                   low \in XferWords, high \in XferWords}
    /\ modbus = Untracked
    /\ custom = Untracked
    /\ tick = Untracked

NextXfer ==
    \/ \E value \in XferValues : XferWrite(value)
    \/ XferRead
    \/ XferDecode

SpecXfer == InitXfer /\ [][NextXfer]_vars

\* A transport from its construction on, with the register pair at zero
InitTransport ==
    /\ InitCaller
    /\ status = Untracked
    /\ vdi = Untracked
    /\ loc = [NoLoc EXCEPT !.arg = 0, !.before = <<0, 0>>]
    /\ xf = NoXf
    /\ modbus = NoModbus
    /\ custom = Untracked
    /\ tick = Untracked

NextTransport ==
    \/ ModbusConnect
    \/ ModbusDisconnect
    \/ \E op \in DataOps \ {"write_32bit_value"} : ModbusCall(op, 0)
    \/ \E value \in XferValues : ModbusCall("write_32bit_value", value)

SpecTransport == InitTransport /\ [][NextTransport]_vars

\* The calls of start_motion that start a thread, with any pattern a caller
\* can build
ThreadInputs ==
    {<<mode, PRESET_PATTERNS(mode)>> : mode \in {"WALK", "GALLOP"}} \cup
    {<<"CUSTOM", pattern>> : pattern \in CallerPatterns}

\* The first sampling thread as start_motion(mode, pattern) leaves it
InitTick ==
    /\ \E a \in ThreadInputs :
         /\ current_mode = a[1]
         /\ current_pattern = a[2]
         /\ cop = Op("start_motion", a[1], a[2], FALSE, FALSE)
         /\ entry = [NoEntry EXCEPT !.mode = a[1]]
    /\ stop_event = FALSE
    /\ motion_thread = 1
    /\ tpc = [t \in Threads |-> IF t = 1 THEN "start" ELSE "none"]
    /\ connected \in [Dev -> BOOLEAN]
    /\ callbacks \in {[pos |-> on, mode |-> on, err |-> on] : on \in BOOLEAN}
    /\ cpc = "idle"
    /\ cdev = "front"
    /\ trace = <<>>
    /\ raised = FALSE
    /\ ret = None
    /\ status = Untracked
    /\ vdi = Untracked
    /\ loc = Untracked
    /\ xf = Untracked
    /\ modbus = Untracked
    /\ custom = Untracked
    /\ tick = Ticking

NextTick ==
    \/ LoopEnter(1)
    \/ TickTest(1)
    \/ \E d \in Dev : LoopDev(1, d)
    \/ \E d \in Dev : TickDevDone(1, d)
    \/ TickNotify(1)
    \/ TickStop

SpecTick == InitTick /\ [][NextTick]_vars

\* One jog on a device, connected or not, with any arguments
InitJog ==
    /\ current_mode = "STOPPED"
    /\ current_pattern = None
    /\ stop_event = FALSE
    /\ motion_thread = NoThread
    /\ tpc = [t \in Threads |-> "none"]
    /\ connected \in {[d \in Dev |-> d = DevUnderTest /\ on] : on \in BOOLEAN}
    /\ callbacks = [pos |-> FALSE, mode |-> FALSE, err |-> FALSE]
    /\ cpc = "idle"
    /\ cdev = "front"
    /\ cop = Op("init", "STOPPED", None, FALSE, FALSE)
    /\ entry = NoEntry
    /\ trace = <<>>
    /\ raised = FALSE
    /\ ret = None
    /\ status = Untracked
    /\ vdi = Untracked
    /\ loc \in {[NoLoc EXCEPT !.arg = direction, !.current = speed] :
                   direction \in Directions, speed \in JogSpeeds}
    /\ xf = Untracked
    /\ modbus = Untracked
    /\ custom = Untracked
    /\ tick = Untracked

NextJog == Jog

SpecJog == InitJog /\ [][NextJog]_vars

\* The patterns calculate_positions is applied to: amplitudes, offsets and
\* phase shifts of the presets and around them
PatternInputs ==
    [cycle_time_ms : {1000},
     front_amplitude : {0, 3000, 5000}, rear_amplitude : {0, 3000, 5000},
     phase_shift : {0, 90, 180},
     front_offset : {-50, 0, 100}, rear_offset : {-50, 0, 100}]

InitPattern ==
    /\ InitCaller
    /\ status = Untracked
    /\ vdi = Untracked
    /\ loc = Untracked
    /\ xf = Untracked
    /\ modbus = Untracked
    /\ custom = Untracked
    /\ tick \in {[NoTick EXCEPT !.p = p, !.k = k] :
                    p \in PatternInputs, k \in Twelfths}

NextPattern == Calculate

SpecPattern == InitPattern /\ [][NextPattern]_vars

\* start_motion and stop_motion alone, called with any pattern a caller can
\* build, after the set-up: each device connected or not, the receivers
\* registered or not
InitMotion ==
    /\ current_mode = "STOPPED"
    /\ current_pattern = None
    /\ stop_event = FALSE
    /\ motion_thread = NoThread
    /\ tpc = [t \in Threads |-> "none"]
    /\ connected \in [Dev -> BOOLEAN]
    /\ callbacks \in {[pos |-> on, mode |-> on, err |-> on] : on \in BOOLEAN}
    /\ cpc = "idle"
    /\ cdev = "front"
    /\ cop = Op("init", "STOPPED", None, FALSE, FALSE)
    /\ entry = NoEntry
    /\ trace = <<>>
    /\ raised = FALSE
    /\ ret = None
    /\ status = Untracked
    /\ vdi = Untracked
    /\ loc = Untracked
    /\ xf = Untracked
    /\ modbus = Untracked
    /\ custom = Untracked
    /\ tick = Untracked

MotionInputs == StartInputs \cup {<<"CUSTOM", "Zero">>}

\* The steps of the caller's thread inside start_motion and stop_motion: the
\* scheduler runs them, and a request of the caller returns within the
\* transport's timeout
CallerStep ==
    \/ StopCheck
    \/ JoinReturn
    \/ JoinTimeout
    \/ StopReset
    \/ \E d \in Dev : StopZero(d)
    \/ \E d \in Dev : StopZeroDone(d)
    \/ StopNotify
    \/ StartSelect
    \/ StartClear
    \/ StartThread

\* The steps of a sampling thread that the scheduler runs; the return of a
\* request it has sent is not among them, it may block for good
ThreadStep(t) ==
    \/ LoopEnter(t)
    \/ LoopTest(t)
    \/ \E d \in Dev : LoopDev(t, d)
    \/ LoopNotify(t)
    \/ LoopFault(t)

NextMotion ==
    \/ CallStopMotion
    \/ \E a \in MotionInputs : CallStartMotion(a[1], a[2])
    \/ CallerStep
    \/ \E t \in Threads : ThreadStep(t)
    \/ \E t \in Threads, d \in Dev : LoopDevDone(t, d)

FairMotion ==
    /\ InitMotion
    /\ [][NextMotion]_vars
    /\ WF_vars(CallerStep)
    /\ \A t \in Threads : WF_vars(ThreadStep(t))

\* The steps of the caller's thread inside emergency_stop: the scheduler runs
\* them, and a request of the caller returns within the transport's timeout
EsStep ==
    \/ \E d \in Dev : EsDev(d)
    \/ \E d \in Dev : EsSpeedDone(d)
    \/ \E d \in Dev : EsEnableRead(d)
    \/ \E d \in Dev : EsEnableWrite(d)
    \/ EsFinish

\* start_motion, stop_motion and emergency_stop with the sampling threads
NextEmergency ==
    \/ NextMotion
    \/ CallEmergencyStop
    \/ EsStep

SpecEmergency == InitMotion /\ [][NextEmergency]_vars

\* emergency_stop called while the first sampling thread runs
NextRunning ==
    \/ CallEmergencyStop
    \/ EsStep
    \/ \E t \in Threads : ThreadStep(t)
    \/ \E t \in Threads, d \in Dev : LoopDevDone(t, d)

\* The caller's thread is scheduled; a sampling thread need not take a step, it
\* may stay inside a tick for good
FairEmergency ==
    /\ InitTick
    /\ [][NextRunning]_vars
    /\ WF_vars(EsStep)

----------------------------------------------------------------------------
\* Claims

ZeroSpeed(d) == <<"zero_speed", d>>
Disable(d) == <<"disable", d>>
Signal == <<"signal", "stop">>
ModeChange(m) == <<"mode_change", m>>

\* C1: in every reachable state at most one sampling loop of the orchestrator
\* is executing ticks, also after a stop_motion whose join timed out.
C1_AtMostOneLoop == Cardinality({t \in Threads : InTick(t)}) <= 1

\* C2: when emergency_stop returns the mode is STOPPED, from every prior mode,
\* whatever devices are connected and whatever the zero-speed and disable
\* commands returned or raised.
C2_EmergencyStopStopped ==
    Returned("emergency_stop") => current_mode = "STOPPED"

C2_Witness ==
    /\ Returned("emergency_stop")
    /\ entry.mode = "WALK"
    /\ Has(<<"raised", "front">>)
    /\ Has(<<"failed", "rear">>)
    /\ current_mode = "STOPPED"

\* C3: in emergency_stop no failure result and no raised fault of a command
\* keeps the zero-speed and the disable command from being attempted on the
\* other connected device (so both are attempted on every connected device),
\* and no such failure leaves emergency_stop as an exception.
C3_EmergencyStopIndependent ==
    Returned("emergency_stop") =>
        /\ ~raised
        /\ \A d \in Dev : connected[d] => Has(ZeroSpeed(d)) /\ Has(Disable(d))

C3_Witness ==
    /\ Returned("emergency_stop")
    /\ Has(<<"failed", "front">>)
    /\ Has(<<"raised", "front">>)
    /\ Pos(ZeroSpeed("rear")) > Pos(<<"raised", "front">>)
    /\ Pos(Disable("rear")) > Pos(ZeroSpeed("rear"))
    /\ ~raised

\* C4: on every device at most one register request is in flight: a request of
\* the caller's thread never overlaps a set_target_position request of a
\* sampling thread on the same device.
C4_SingleRequestInFlight ==
    \A d \in Dev : ~(CallerInFlight(d) /\ \E t \in Threads : ThreadInFlight(t, d))

\* Thread t is alive and still able to issue a set_target_position: it is in
\* such a request, or has one ahead in its tick, or will begin a tick
PositionWriter(t) ==
    \/ tpc[t] \in {"front_io", "rear_io"}
    \/ tpc[t] = "front" /\ (connected["front"] \/ connected["rear"])
    \/ tpc[t] = "rear" /\ connected["rear"]
    \/ /\ tpc[t] \in {"start", "test", "notify"}
       /\ ~stop_event
       /\ (connected["front"] \/ connected["rear"])

\* C5: manual_move never issues a set_target_position while a sampling thread
\* is alive and able to issue one.
C5_WritersExclusive ==
    cpc = "mm_io" => \A t \in Threads : ~PositionWriter(t)

\* C6: whenever a sampling thread is alive, the mode is WALK, GALLOP or CUSTOM.
C6_AliveOnlyInPatternMode ==
    \A t \in Threads : Alive(t) => current_mode \in PatternModes

\* C6 as amended: a sampling thread that is alive while the mode is not WALK,
\* GALLOP or CUSTOM has been signalled to stop (the stop event is set).
C6_AliveOutsidePatternModeIsSignalled ==
    \A t \in Threads :
        Alive(t) => (current_mode \in PatternModes \/ stop_event)

C6_Witness ==
    /\ Returned("emergency_stop")
    /\ entry.mode = "GALLOP"
    /\ current_mode = "STOPPED"
    /\ stop_event
    /\ \E t \in Threads : Alive(t) /\ motion_thread = t

\* C7: stop_motion signals the loop first, then waits for it (until it has
\* exited or the bounded wait has elapsed), then issues a zero-speed command
\* to exactly the connected devices; when it returns the mode is STOPPED and
\* the mode-change(STOPPED) notification was the last thing it did.
C7_StopMotionOrder ==
    Returned("stop_motion") =>
        /\ trace[1] = Signal
        /\ current_mode = "STOPPED"
        /\ \A i \in 1..Len(trace) : trace[i][1] = "join" => i = 2
        /\ (entry.thread # NoThread /\ Alive(entry.thread))
               => Has(<<"join", "timeout">>)
        /\ Has(<<"join", "exited">>) => ~Alive(entry.thread)
        /\ \A d \in Dev : connected[d] <=> Has(ZeroSpeed(d))
        /\ \A d \in Dev : \A i \in 1..Len(trace) :
               trace[i] = ZeroSpeed(d) =>
                   /\ i > 1
                   /\ \A j \in 1..Len(trace) : trace[j][1] = "join" => j < i
        /\ callbacks.mode => /\ trace[Len(trace)] = ModeChange("STOPPED")
                             /\ \A d \in Dev :
                                    Pos(ZeroSpeed(d)) < Len(trace)

C7_Witness ==
    /\ Returned("stop_motion")
    /\ trace = <<Signal, <<"join", "exited">>, ZeroSpeed("front"),
                 ZeroSpeed("rear"), ModeChange("STOPPED")>>
    /\ current_mode = "STOPPED"

\* C8: stop_motion is safe when nothing runs and idempotent: every call, the
\* first from the initial state and one right after another stop_motion
\* included, returns without an exception and with the mode STOPPED.
C8_StopMotionIdempotent ==
    Returned("stop_motion") => ~raised /\ current_mode = "STOPPED"

C8_Witness ==
    /\ Returned("stop_motion")
    /\ entry.again
    /\ entry.thread = NoThread
    /\ \A t \in Threads : tpc[t] = "none"
    /\ ~raised
    /\ current_mode = "STOPPED"

\* start_motion(CUSTOM) without a pattern has returned
FailedCustomStart ==
    /\ Returned("start_motion")
    /\ cop.mode = "CUSTOM"
    /\ cop.pattern = None

C10_FailedStartNotifiesError ==
    (FailedCustomStart /\ callbacks.err) =>
        \E i \in 1..Len(trace) : trace[i][1] = "error"

\* Sampling threads the running or last operation started
ThreadStarts ==
    Cardinality({i \in 1..Len(trace) : trace[i] = <<"thread", "start">>})

\* C11: start_motion(WALK), start_motion(GALLOP) and start_motion(CUSTOM) with
\* a pattern end in that mode with the preset of the gait (or the pattern
\* passed) selected and exactly one new sampling thread started;
\* start_motion(MANUAL) ends in MANUAL and start_motion(STOPPED) in STOPPED,
\* both without a thread started.
C11_StartMotionOutcome ==
    Returned("start_motion") =>
        /\ ~raised
        /\ cop.mode = "WALK" =>
               /\ current_mode = "WALK" /\ current_pattern = "Walk"
               /\ ThreadStarts = 1 /\ motion_thread \in Created
        /\ cop.mode = "GALLOP" =>
               /\ current_mode = "GALLOP" /\ current_pattern = "Gallop"
               /\ ThreadStarts = 1 /\ motion_thread \in Created
        /\ (cop.mode = "CUSTOM" /\ cop.pattern # None) =>
               /\ current_mode = "CUSTOM" /\ current_pattern = cop.pattern
               /\ ThreadStarts = 1 /\ motion_thread \in Created
        /\ cop.mode = "MANUAL" =>
               /\ current_mode = "MANUAL"
               /\ ThreadStarts = 0 /\ motion_thread = NoThread
        /\ cop.mode = "STOPPED" =>
               /\ current_mode = "STOPPED"
               /\ ThreadStarts = 0 /\ motion_thread = NoThread

C11_Witness ==
    /\ Returned("start_motion")
    /\ cop.mode = "GALLOP"
    /\ entry.mode = "WALK"
    /\ current_mode = "GALLOP"
    /\ current_pattern = "Gallop"
    /\ ThreadStarts = 1
    /\ Cardinality(Created) = 2

\* C12: every call of start_motion made while a mode-change receiver is
\* registered fires a mode-change notification, whatever the mode asked for
\* (STOPPED, MANUAL, WALK, GALLOP, CUSTOM with and without a pattern).
C12_StartMotionNotifies ==
    (Returned("start_motion") /\ callbacks.mode) =>
        \E i \in 1..Len(trace) : trace[i][1] = "mode_change"

C12_Witness ==
    /\ Returned("start_motion")
    /\ cop.mode = "CUSTOM"
    /\ cop.pattern = None
    /\ callbacks.mode
    /\ Has(ModeChange("STOPPED"))
    /\ Pos(<<"log", "error">>) > Pos(ModeChange("STOPPED"))

\* set_target_position requests manual_move issued to device d
PositionRequests(d) ==
    Cardinality({i \in 1..Len(trace) : trace[i] = <<"position", d>>})

\* C13: outside MANUAL manual_move issues no set_target_position and fires no
\* position-update notification; in MANUAL it issues set_target_position once
\* to each device that is connected and was given a position, and to no other.
C13_ManualMoveGated ==
    Returned("manual_move") =>
        /\ current_mode # "MANUAL" =>
               \A i \in 1..Len(trace) :
                   trace[i][1] \notin {"position", "position_update"}
        /\ current_mode = "MANUAL" =>
               /\ PositionRequests("front") =
                      (IF cop.front /\ connected["front"] THEN 1 ELSE 0)
               /\ PositionRequests("rear") =
                      (IF cop.rear /\ connected["rear"] THEN 1 ELSE 0)

C13_Witness ==
    /\ Returned("manual_move")
    /\ current_mode = "MANUAL"
    /\ cop.front /\ ~cop.rear
    /\ connected["front"] /\ connected["rear"]
    /\ PositionRequests("front") = 1
    /\ PositionRequests("rear") = 0

\* C14: start_motion, stop_motion, manual_move and manual_jog return a success
\* or failure outcome to their caller.
C14_ExplicitOutcome ==
    (cpc = "idle" /\ cop.name \in {"start_motion", "stop_motion",
                                   "manual_move", "manual_jog"})
        => ret \in {"True", "False"}

\* The value a field takes from the registers of its sub-read: position and
\* the signed fields in two's complement, the others as they are
FieldValue(f, regs) ==
    IF f = "position"
    THEN (IF regs[2] >= 32768 THEN regs[2] - 65536 ELSE regs[2]) * 65536
         + regs[1]
    ELSE IF f \in {"speed", "torque"}
    THEN CHOOSE x \in {regs[1], regs[1] - 65536} : x \in -32768..32767
    ELSE regs[1]

\* C15: in read_status every sub-read stands alone: whichever of the six
\* sub-reads (position, speed, torque, fault code, DI, DO) fail, the field of
\* a failed sub-read keeps the value it had, the field of a successful one
\* takes the value read, no other field changes, the read cycle goes on to the
\* next sub-read, and the call of a connected device returns success.
C15_SubReadsIndependent ==
    [][/\ \A i \in 1..Len(RsPcs) :
              (cpc = RsPcs[i] /\ cpc' # cpc) =>
                  LET f == StatusFields[i]
                      r == loc'.result
                      usable == r.ok /\ Len(r.regs) >= Registers(f)
                  IN  /\ \A g \in (DOMAIN status) \ {f} : status'[g] = status[g]
                      /\ usable => status'[f] = FieldValue(f, r.regs)
                      /\ ~usable => status'[f] = status[f]
                      /\ cpc' = IF i < Len(RsPcs) THEN RsPcs[i + 1]
                                ELSE "rs_return"
                      /\ ~raised'
       /\ (cpc = "rs_return" /\ cpc' # cpc) =>
              /\ cpc' = "idle"
              /\ ret' = "True"
              /\ ~raised'
              /\ status' = status]_vars

C15_Witness ==
    /\ Returned("read_status")
    /\ ret = "True"
    /\ \A f \in {"position", "speed", "torque", "di_status", "do_status"} :
           ~Has(<<"failed", f>>)
    /\ Has(<<"failed", "fault_code">>)
    /\ status.fault_code = 32768
    /\ status.speed = -32768
    /\ status.di_status = 32767

\* C16: read_status returns failure exactly when the device is not connected
\* when it is called; that call issues no register request and leaves every
\* field of the status as it was.
C16_FailureIffNotConnected ==
    [][(cpc' = "idle" /\ cop'.name = "read_status") =>
           /\ ~raised'
           /\ ret' \in {"True", "False"}
           /\ ret' = "False" <=> ~connected[DevUnderTest]
           /\ ~connected[DevUnderTest] =>
                  /\ status' = status
                  /\ trace' = <<>>]_vars

C16_Witness ==
    /\ Returned("read_status")
    /\ ret = "False"
    /\ ~connected[DevUnderTest]
    /\ trace = <<>>
    /\ status.position # 0
    /\ status.fault_code # 0

\* Bit k of a register value
Bit(value, k) == (value \div 2^k) % 2

\* C17: for every content of the virtual DI, an enable that succeeds changes at
\* most bit 0 of it, which is then set after enable(True) and cleared after
\* enable(False); so after enable(True) and enable(False) in a row, both
\* successful and with no other writer, the bits 1 to 15 are what they were.
C17_EnableTouchesBitZero ==
    (Returned("enable") /\ ret = "True") =>
        /\ \A k \in 1..15 : Bit(vdi, k) = Bit(loc.current, k)
        /\ Bit(vdi, 0) = (IF loc.arg THEN 1 ELSE 0)
        /\ \A k \in 1..15 : Bit(vdi, k) = Bit(loc.before, k)

C17_Witness ==
    /\ Returned("enable")
    /\ ret = "True"
    /\ ~loc.arg
    /\ loc.before = 49154
    /\ loc.current = 49155
    /\ vdi = 49154

\* C18: clear_fault pulses bit 14 of the virtual DI: it writes the value read
\* at its start with bit 14 set and then, if that write succeeded, the same
\* value with bit 14 cleared, all other bits as read; it returns success
\* exactly when the read and both writes succeeded and failure when the read
\* or a write failed; after a successful first and a failed second write the
\* register holds bit 14 set.
C18_ClearFaultPulse ==
    (Returned("clear_fault") /\ ~raised) =>
        LET w == loc.writes
            sameButPulse(x) ==
                \A k \in (0..15) \ {14} : Bit(x, k) = Bit(loc.current, k)
        IN  /\ ret \in {"True", "False"}
            /\ ret = "True" <=> (Len(w) = 2 /\ ~Has(<<"write", "failed">>))
            /\ ~loc.result.ok => (ret = "False" /\ w = <<>>)
            /\ Len(w) >= 1 => (Bit(w[1], 14) = 1 /\ sameButPulse(w[1]))
            /\ Len(w) = 1 => (ret = "False" /\ vdi = loc.current)
            /\ Len(w) = 2 => /\ Bit(w[2], 14) = 0 /\ sameButPulse(w[2])
                             /\ trace[2] = <<"write", "ok">>
            /\ ret = "True" => vdi = w[Len(w)]
            /\ (Len(w) = 2 /\ Has(<<"write", "failed">>)) =>
                   (ret = "False" /\ Bit(vdi, 14) = 1)

C18_Witness ==
    /\ Returned("clear_fault")
    /\ ret = "False"
    /\ Len(loc.writes) = 2
    /\ trace = << <<"read", "vdi">>, <<"write", "ok">>, <<"write", "failed">> >>
    /\ Bit(loc.current, 14) = 0
    /\ Bit(vdi, 14) = 1

\* read_32bit_value has returned the registers a write_32bit_value stored
ReadBack == xf.written /\ xf.pc \in {"read", "decoded"}

C20_PositionSigned ==
    xf.pc = "decoded" =>
        LET p == status.position
            low == xf.mem[1]
            high == xf.mem[2]
        IN  /\ p >= -2147483647 - 1
            /\ p <= 2147483647
            /\ p % 65536 = low
            /\ (p \div 65536) % 65536 = high
            /\ p < 0 <=> Bit(high, 15) = 1

C20_Witness ==
    /\ xf.pc = "decoded"
    /\ ~xf.written
    /\ xf.mem = <<0, 32768>>
    /\ status.position = -2147483647 - 1


\* C21: while the transport is not connected (never opened, open failed or
\* closed) every data operation returns its failure result without a request
\* to the client and without raising; connect returns False instead of raising
\* when the line cannot be opened
C21_FailsFastUnconnected ==
    /\ (cpc = "idle" /\ cop.name \in DataOps /\ ~IsConnected) =>
           /\ trace = <<>>
           /\ ret = Failure(cop.name)
           /\ ~raised
    /\ Returned("modbus_connect") =>
           /\ ~raised
           /\ ret = Bool(trace[1][2] = "opened")
           /\ ret = Bool(IsConnected)

C21_Witness ==
    /\ Returned("write_32bit_value")
    /\ modbus.client # None
    /\ ~IsConnected
    /\ loc.arg # 0
    /\ ret = "False"
    /\ trace = <<>>

\* C22: a data operation makes at most one request to the client, and a
\* time-out, line error or exception response of that request is returned as
\* the failure result
C22_NoRetry ==
    (cpc = "idle" /\ cop.name \in DataOps) =>
        /\ Len(trace) <= 1
        /\ IsConnected => Len(trace) = 1
        /\ \A i \in 1..Len(trace) :
              trace[i][2] \in {"error", "ModbusException", "Exception"} =>
                  ret = Failure(cop.name) /\ ~raised

C22_Witness ==
    /\ Returned("read_32bit_value")
    /\ trace = << <<"read_holding_registers", "ModbusException">> >>
    /\ ret = "None"

\* C23: write_32bit_value sends both words in one write_registers request,
\* value & 0xFFFF first and (value >> 16) & 0xFFFF second, so the register pair
\* holds either what it held before the call or both words of the value
C23_BothWordsInOneRequest ==
    Returned("write_32bit_value") =>
        LET both == <<loc.arg % 65536, (loc.arg \div 65536) % 65536>> IN
        /\ Len(trace) <= 1
        /\ \A i \in 1..Len(trace) :
              /\ trace[i][1] = "write_registers"
              /\ loc.writes[i] = [at |-> 1, words |-> both]
        /\ xf.mem \in {loc.before, both}
        /\ ret = "True" => xf.mem = both

C23_Witness ==
    /\ Returned("write_32bit_value")
    /\ ret = "True"
    /\ loc.arg = -32769
    /\ loc.before = <<1, 0>>
    /\ xf.mem = <<32767, 65535>>

\* C24: disconnect never raises and leaves the transport not connected, from
\* every state of the transport, and a second disconnect changes nothing
C24_CloseIdempotent ==
    [][cop'.name = "modbus_disconnect" =>
           /\ ~raised'
           /\ ~IsConnected'
           /\ cop.name = "modbus_disconnect" => modbus' = modbus]_vars

C24_Witness ==
    /\ Returned("modbus_disconnect")
    /\ entry.again
    /\ modbus.client # None
    /\ ~IsConnected


\* C25: a tick in which set_target_position failed on one device has attempted
\* the command of every connected device, has reported the failure through the
\* error notification, and is followed by the next loop test
C25_FailureReported ==
    \A d \in Dev :
        (Has(<<"failed", d>>) /\ ~Has(<<"raised", "receiver">>)
            /\ tpc[1] \in {"test", "done"}) =>
                /\ \A e \in Dev : connected[e] =>
                       Has(<<"sent", e>>) \/ Has(<<"failed", e>>)
                /\ callbacks.err => Has(<<"on_error", d>>)

\* C26: an exception raised inside a tick (by the position-update receiver, or
\* by the phase of a pattern whose period is 0) ends the loop after one error
\* notification; the mode is what it was and no other thread exists
C26_FaultEndsLoop ==
    \A cause \in {"receiver", "ZeroDivisionError"} :
        Has(<<"raised", cause>>) =>
            /\ tpc[1] = "done"
            /\ callbacks.err =>
                   Cardinality({i \in 1..Len(trace) :
                                   trace[i][1] = "on_error"}) = 1
            /\ callbacks.err => trace[Len(trace)] = <<"on_error", cause>>
            /\ current_mode = entry.mode
            /\ motion_thread = 1
            /\ \A t \in Threads \ {1} : tpc[t] = "none"

C26_Witness ==
    /\ Has(<<"raised", "ZeroDivisionError">>)
    /\ Has(<<"on_error", "ZeroDivisionError">>)
    /\ current_mode = "CUSTOM"
    /\ tpc[1] = "done"
    /\ ~stop_event


\* C27: start_motion and stop_motion, once called, return, also when the
\* sampling thread stays blocked in a request for good; stop_motion returns in
\* mode STOPPED without a thread handle
C27_StartStopTerminate ==
    /\ (cpc # "idle") ~> (cpc = "idle")
    /\ [](Returned("stop_motion") =>
              current_mode = "STOPPED" /\ motion_thread = NoThread)

C27_Witness ==
    /\ Returned("start_motion")
    /\ Has(<<"join", "timeout">>)
    /\ current_mode = "WALK"
    /\ \E t \in Threads : t # motion_thread /\ tpc[t] \in {"front_io", "rear_io"}

\* C28 as stated: in a pattern-bearing mode the period of the pattern is
\* strictly positive
C28_PeriodPositive ==
    (current_mode \in PatternModes /\ current_pattern # None) =>
        cycle_time_ms(current_pattern) > 0

\* C28: the orchestrator takes the period as it is given: WALK and GALLOP run
\* the preset, whose period is positive, and CUSTOM runs the caller's pattern,
\* so a period that is not positive is the caller's
C28_PeriodAsSupplied ==
    current_mode \in PatternModes =>
        /\ current_pattern # None
        /\ current_mode # "CUSTOM" =>
               /\ current_pattern = PRESET_PATTERNS(current_mode)
               /\ cycle_time_ms(current_pattern) > 0
        /\ current_mode = "CUSTOM" => current_pattern \in CallerPatterns

C28_Witness ==
    /\ current_mode = "CUSTOM"
    /\ current_pattern = "Zero"
    /\ motion_thread # NoThread
    /\ tpc[motion_thread] = "done"
    /\ ~stop_event


\* C29: the status changes only in a sub-read of read_status, whatever other
\* operation of the device runs, and dc_voltage, is_enabled and is_running
\* never change
C29_StatusFrame ==
    [][/\ status' # status =>
              /\ cop.name = "read_status"
              /\ \E i \in 1..Len(RsPcs) : cpc = RsPcs[i]
       /\ status'.dc_voltage = status.dc_voltage
       /\ status'.is_enabled = status.is_enabled
       /\ status'.is_running = status.is_running]_vars

C29_Witness ==
    /\ Returned("enable")
    /\ ret = "True"
    /\ loc.arg
    /\ ~status.is_enabled
    /\ status.position # 0
    /\ Len(custom) = 1

\* C30: read_custom_registers returns one entry for every registered address,
\* None where the read of that address failed and the value read elsewhere,
\* after one read request per address and no write request, and never raises
C30_CustomReadsIndependent ==
    /\ \A i, j \in 1..Len(custom) :
           custom[i].address = custom[j].address => i = j
    /\ Returned("read_custom_registers") =>
           /\ ~raised
           /\ ret = "dict"
           /\ Len(loc.results) = Len(custom)
           /\ \A i \in 1..Len(loc.results) :
                  /\ i <= Len(custom)
                  /\ loc.results[i].address = custom[i].address
                  /\ loc.results[i].value = custom[i].value
           /\ \A k \in 1..Len(trace) : trace[k] = <<"read", "custom">>
           /\ connected[DevUnderTest] => Len(trace) = Len(custom)

C30_Witness ==
    /\ Returned("read_custom_registers")
    /\ Len(custom) = 2
    /\ Len(loc.results) = 2
    /\ ~loc.results[1].value.ok
    /\ loc.results[2].value.ok
    /\ loc.results[2].value.val = Wide(0, 32768)

\* C31: calculate_positions is periodic: for every pattern and every phase in
\* [0, 1) the positions at phase + 1 equal the positions at phase, front and
\* rear
C31_Periodic ==
    tick.pc = "calculated" => tick.next = tick.positions

\* C32 as stated: at phase 0 with phase shift 0 and equal amplitudes the rear
\* position equals the front position, whatever the two offsets are
C32_RearEqualsFront ==
    (/\ tick.pc = "calculated"
     /\ tick.k = 0
     /\ tick.p.phase_shift = 0
     /\ tick.p.front_amplitude = tick.p.rear_amplitude) =>
        tick.positions[2] = tick.positions[1]

\* C32: at phase 0 with phase shift 0 each position is the offset of its
\* actuator, so with equal amplitudes the rear position equals the front
\* position exactly when the two offsets are equal
C32_PositionsAreOffsets ==
    (/\ tick.pc = "calculated"
     /\ tick.k = 0
     /\ tick.p.phase_shift = 0) =>
        /\ tick.positions = <<tick.p.front_offset, tick.p.rear_offset>>
        /\ tick.p.front_offset = tick.p.rear_offset =>
               tick.positions[2] = tick.positions[1]

C32_Witness ==
    /\ tick.pc = "calculated"
    /\ tick.k = 0
    /\ tick.p.phase_shift = 0
    /\ tick.p.front_amplitude = 3000
    /\ tick.p.rear_amplitude = 3000
    /\ tick.p.front_offset = 100
    /\ tick.p.rear_offset = 100
    /\ tick.positions = <<100, 100>>

\* C33: every position a tick of the sampling loop computes, sends to a device
\* or hands to the position-update receiver lies within the amplitude of its
\* actuator around the offset of its actuator
C33_WithinEnvelope ==
    LET p == MotionPattern(current_pattern)
        Within(front, rear) ==
            /\ p.front_offset - p.front_amplitude <= front
            /\ front <= p.front_offset + p.front_amplitude
            /\ p.rear_offset - p.rear_amplitude <= rear
            /\ rear <= p.rear_offset + p.rear_amplitude
    IN  tick.pc # "ticking" =>
            /\ Within(tick.positions[1], tick.positions[2])
            /\ \A i \in 1..Len(tick.sent) :
                   IF tick.sent[i][1] = "front"
                   THEN Within(tick.sent[i][2], p.rear_offset)
                   ELSE Within(p.front_offset, tick.sent[i][2])
            /\ \A i \in 1..Len(tick.notified) :
                   Within(tick.notified[i][1], tick.notified[i][2])

C33_Witness ==
    /\ current_pattern = "User"
    /\ tick.pc = "slept"
    /\ tick.positions = <<3100, -49>>
    /\ tick.sent = << <<"front", 3100>>, <<"rear", -49>> >>
    /\ tick.notified = << <<3100, -49>> >>

\* C35: a tick calls set_target_position on the connected devices only, front
\* before rear, each with its computed position, and after them calls the
\* position-update receiver (if one is registered) exactly once with the two
\* computed positions, whether no, one or both devices are connected
C35_TickOrder ==
    LET expected ==
            SelectSeq(<< <<"front", tick.positions[1]>>,
                         <<"rear", tick.positions[2]>> >>,
                      LAMBDA e : connected[e[1]])
        updates == {i \in 1..Len(trace) : trace[i][1] = "position_update"}
    IN  /\ Len(tick.sent) <= Len(expected)
        /\ \A i \in 1..Len(tick.sent) : tick.sent[i] = expected[i]
        /\ Len(tick.notified) = Cardinality(updates)
        /\ tick.notified # <<>> => tick.sent = expected
        /\ tick.pc = "slept" =>
               /\ tick.sent = expected
               /\ Len(trace) = Len(expected) + Len(tick.notified)
               /\ \A i \in 1..Len(expected) :
                      /\ trace[i][1] \in {"sent", "failed"}
                      /\ trace[i][2] = expected[i][1]
               /\ \A i \in updates : i = Len(trace)
               /\ tick.notified =
                      IF callbacks.pos THEN <<tick.positions>> ELSE <<>>

C35_Witness ==
    /\ tick.pc = "slept"
    /\ ~connected["front"]
    /\ ~connected["rear"]
    /\ callbacks.pos
    /\ current_pattern = "Gallop"
    /\ tick.sent = <<>>
    /\ tick.notified = << <<4330, 2500>> >>
    /\ trace = << <<"position_update", "returned">> >>

\* C36: an enable whose read of the virtual DI failed (None, or a response
\* without a register) returns failure and has issued no write, so the
\* register holds what it held
C36_EnableFailsOnFailedRead ==
    (Returned("enable") /\ ~Truthy(loc.result)) =>
        /\ ~raised
        /\ ret = "False"
        /\ loc.writes = <<>>
        /\ ~Has(<<"write", "ok">>)
        /\ ~Has(<<"write", "failed">>)

\* C37: jog(direction, speed) with direction in {-1, 0, 1} and speed in
\* 0 .. 32767 passes to the speed-command register one value, the 16-bit
\* two's complement of direction * speed: a value in 0 .. 65535 that is
\* direction * speed if that is not negative and 65536 + direction * speed
\* otherwise, and that the conversion of read_status (val - 65536 above 32767)
\* turns back into direction * speed
C37_JogEncoding ==
    Returned("jog") =>
        LET v == loc.arg * loc.current IN
        /\ Len(loc.writes) = 1
        /\ loc.writes[1] \in 0..65535
        /\ loc.writes[1] = IF v >= 0 THEN v ELSE 65536 + v
        /\ Signed16(loc.writes[1]) = v
        /\ loc.arg = 0 => loc.writes[1] = 0
        /\ connected[DevUnderTest] => Len(trace) = 1

C37_Witness ==
    /\ Returned("jog")
    /\ loc.arg = -1
    /\ loc.current = 32767
    /\ loc.writes = <<32769>>
    /\ ret = "True"

\* C39: when start_motion, stop_motion or emergency_stop returns and a
\* mode-change receiver is registered, the operation has called the receiver
\* and the mode of its last call is the current mode
C39_LastNotifiedModeIsCurrent ==
    \A name \in {"start_motion", "stop_motion", "emergency_stop"} :
        (Returned(name) /\ callbacks.mode) =>
            LET fired == {i \in 1..Len(trace) : trace[i][1] = "mode_change"}
            IN  /\ fired # {}
                /\ \A i \in fired :
                       (\A j \in fired : j <= i) => trace[i][2] = current_mode

C39_Witness ==
    /\ Returned("start_motion")
    /\ callbacks.mode
    /\ cop.mode = "GALLOP"
    /\ entry.mode = "WALK"
    /\ current_mode = "GALLOP"
    /\ Has(<<"mode_change", "STOPPED">>)
    /\ trace[Len(trace)] = <<"mode_change", "GALLOP">>

\* C34: emergency_stop, once called, returns, also when the sampling thread
\* never takes another step; it has then not joined the thread
C34_EmergencyStopDoesNotWait ==
    /\ (cop.name = "emergency_stop" /\ cpc # "idle")
           ~> Returned("emergency_stop")
    /\ [](Returned("emergency_stop") =>
              /\ ~Has(<<"join", "returned">>)
              /\ ~Has(<<"join", "timeout">>)
              /\ motion_thread = 1)

C34_Witness ==
    /\ Returned("emergency_stop")
    /\ tpc[1] = "front_io"
    /\ connected["front"]
    /\ connected["rear"]
    /\ Has(ZeroSpeed("front"))
    /\ Has(Disable("front"))
    /\ Has(ZeroSpeed("rear"))
    /\ Has(Disable("rear"))
    /\ current_mode = "STOPPED"

\* C38: emergency_stop returns with the stop event set, only start_motion
\* clears the event, and a sampling thread that tests the event while it is
\* set leaves the loop: it finishes the tick it is in, with at most one
\* position command per device, and begins no other
C38_NoTickAfterEmergencyStop ==
    /\ [](Returned("emergency_stop") => stop_event)
    /\ [][(stop_event /\ ~stop_event') =>
              (cop.name = "start_motion" /\ cpc = "start_clear")]_vars
    /\ [][\A t \in Threads :
              /\ (stop_event /\ tpc[t] \in {"test", "test0"}
                      /\ tpc'[t] # tpc[t]) => tpc'[t] = "done"
              /\ (stop_event /\ stop_event' /\ tpc'[t] = "front") =>
                     tpc[t] = "front"
              /\ (tpc'[t] = "front_io" /\ tpc[t] # "front_io") =>
                     tpc[t] = "front"
              /\ (tpc'[t] = "rear_io" /\ tpc[t] # "rear_io") =>
                     tpc[t] = "rear"]_vars

C38_Witness ==
    /\ Returned("emergency_stop")
    /\ stop_event
    /\ entry.mode = "WALK"
    /\ \E t \in Threads : tpc[t] = "rear_io"

\* C40: only connect and disconnect change what is_connected answers: every
\* data operation, also one whose request failed, timed out or raised, leaves
\* the transport as connected as it was, so the operation after it sends its
\* request as well
C40_ConnectedFrame ==
    /\ [][cop'.name \in DataOps => modbus' = modbus]_vars
    /\ [][IsConnected' # IsConnected =>
              cop'.name \in {"modbus_connect", "modbus_disconnect"}]_vars
    /\ [][(IsConnected /\ cop'.name \in DataOps) => Len(trace') = 1]_vars

C40_Witness ==
    /\ Returned("write_register")
    /\ trace = << <<"write_register", "Exception">> >>
    /\ ret = "False"
    /\ IsConnected

====
